---------------------------- MODULE Spec2Model ----------------------------
(***************************************************************************)
(* Wage-ETL: the extract - normalize - validate - load pipeline.           *)
(*                                                                         *)
(* The module holds one state machine per component, each over its own     *)
(* variables, and one specification per component:                         *)
(*   SpecHttp      HttpClient._fetch_with_retry        (src/extract/http.py)*)
(*   SpecCache     ResponseCache                       (src/extract/cache.py)*)
(* A specification leaves the variables of the other components at their   *)
(* idle values.                                                            *)
(***************************************************************************)
EXTENDS Integers, Sequences, FiniteSets, TLC

VARIABLES
    \* ---- HttpClient (src/extract/http.py) ----
    max_retries,     \* HttpClient.max_retries
    hpc,             \* position in _fetch_with_retry: idle | loop | returned | raised
    attempt,         \* the loop variable of _fetch_with_retry (0-based)
    calls,           \* the outcome of every _fetch call made so far, in order
    sleeps,          \* the argument of every time.sleep made by _wait, in order
    last_exception,  \* the local last_exception
    raised,          \* the exception that left _fetch_with_retry (NoExc if none)
    \* ---- ResponseCache (src/extract/cache.py) ----
    ttl_days,        \* ResponseCache.ttl_days
    files,           \* the cache directory: key |-> the file <hash of key>.json
    now,             \* datetime.now(), in days
    lastGet,         \* the last call of ResponseCache.get and how it ended
    stored,          \* key |-> the content and day of the last store(key, ...) call
    lastClear,       \* the call of ResponseCache.clear_expired and how it ended
    \* ---- HttpClient.get (src/extract/http.py) ----
    gpc,             \* position in get: idle | fetching | returned | raised
    get_key,         \* the local cache_key
    get_result,      \* what get returned
    store_calls,     \* the calls of cache.store made by get, in order
    keyreq,          \* two requests, and the URL and cache key built for each
    \* ---- extraction operations (src/extract/extract_ops.py) ----
    scrape,          \* the last call of scrape_county[_with_extractor] and how it ended
    \* ---- normalize_wages / normalize_expenses (src/transform/pandas_ops.py) ----
    norm,            \* the last call and how it ended
    \* ---- process_state (src/main.py) and the database ----
    ppc,             \* position in process_state
    run_state_fips,  \* the local state_fips
    county_codes,    \* the local county_codes
    next_county,     \* the index of the county the generator yields next
    run_id,          \* the local run_id
    etl_runs,        \* table etl_runs: run_id |-> row
    all_wages,       \* the accumulators of process_state
    all_expenses,
    wage_rejects,
    expense_rejects,
    counties_processed,
    loaded,          \* the locals wages_loaded and expenses_loaded
    rejected,        \* the locals wages_rejected and expenses_rejected
    pending,         \* the exception being propagated
    staging,         \* tables stg_wages, stg_expenses and their reject tables
    upsert_calls,    \* the frames handed to bulk_upsert_wages / bulk_upsert_expenses
    end_run_calls,   \* the calls of end_run: the row written and how the call ended
    delays,          \* the number of time.sleep calls made by the loop
    results,         \* the results scrape_state_counties yielded and what the loop did with each
    \* ---- the status decision of process_state (src/main.py:117-128) ----
    decision,        \* the counts and the arguments of the end_run they lead to
    \* ---- run tracking (src/load/run_tracker.py) ----
    tracker,         \* the last call of start_run or end_run on table etl_runs
    \* ---- the load functions called on their own (src/load/staging.py) ----
    load_call,       \* the last call of bulk_upsert_wages, bulk_upsert_expenses or load_rejects
    load_clock,      \* CURRENT_TIMESTAMP: the number of calls made
    \* ---- the Census extractor (src/extract/census_api.py) ----
    census,          \* a CensusExtractor: its construction and its get_counties call
    \* ---- the header lookup (src/transform/normalizers.py) ----
    lookup,          \* the last call of get_family_config_metadata
    \* ---- record construction (src/transform/models.py) ----
    record,          \* the last construction of a WageRecord or an ExpenseRecord
    \* ---- batch validation (src/transform/validation.py) ----
    validation,      \* the last call of validate_wages or validate_expenses
    \* ---- the scrape sequence and its session (src/extract/extract_ops.py) ----
    session,         \* one invocation of scrape_state_counties and its consumer
    \* ---- the entry point (src/main.py:138-162) ----
    mainrun          \* one execution of main: the states it handed to process_state

httpVars == <<max_retries, hpc, attempt, calls, sleeps, last_exception, raised>>

cacheVars == <<ttl_days, files, now, lastGet, stored, lastClear>>

clientVars == <<gpc, get_key, get_result, store_calls>>

keyVars == <<keyreq>>

statusVars == <<decision>>

trackerVars == <<tracker>>

loadVars == <<load_call, load_clock>>

censusVars == <<census>>

lookupVars == <<lookup>>

modelVars == <<record>>

validateVars == <<validation>>

sessionVars == <<session>>

mainVars == <<mainrun>>

extractVars == <<scrape>>

transformVars == <<norm>>

pipelineVars ==
    <<ppc, run_state_fips, county_codes, next_county, run_id, etl_runs, all_wages,
      all_expenses, wage_rejects, expense_rejects, counties_processed, loaded,
      rejected, pending, staging, upsert_calls, end_run_calls, delays, results>>

vars == <<httpVars, cacheVars, extractVars, transformVars, pipelineVars, clientVars, keyVars, statusVars, trackerVars, loadVars, censusVars, lookupVars, modelVars, validateVars, sessionVars, mainVars>>

\* The variables a specification of one component leaves alone.
exceptHttp == <<cacheVars, extractVars, transformVars, pipelineVars, clientVars, keyVars, statusVars, trackerVars, loadVars, censusVars, lookupVars, modelVars, validateVars, sessionVars, mainVars>>

exceptCache == <<httpVars, extractVars, transformVars, pipelineVars, clientVars, keyVars, statusVars, trackerVars, loadVars, censusVars, lookupVars, modelVars, validateVars, sessionVars, mainVars>>

exceptExtract == <<httpVars, cacheVars, transformVars, pipelineVars, clientVars, keyVars, statusVars, trackerVars, loadVars, censusVars, lookupVars, modelVars, validateVars, sessionVars, mainVars>>

exceptTransform == <<httpVars, cacheVars, extractVars, pipelineVars, clientVars, keyVars, statusVars, trackerVars, loadVars, censusVars, lookupVars, modelVars, validateVars, sessionVars, mainVars>>

exceptClient == <<extractVars, transformVars, pipelineVars, keyVars, statusVars, trackerVars, loadVars, censusVars, lookupVars, modelVars, validateVars, sessionVars, mainVars>>

exceptKey == <<httpVars, cacheVars, clientVars, extractVars, transformVars, pipelineVars, statusVars, trackerVars, loadVars, censusVars, lookupVars, modelVars, validateVars, sessionVars, mainVars>>

exceptStatus ==
    <<validateVars, sessionVars, mainVars, censusVars, lookupVars, modelVars, httpVars, cacheVars, extractVars, transformVars, pipelineVars, clientVars, keyVars,
      trackerVars, loadVars>>

\* Run tracking works on table etl_runs; the locals of process_state stay idle.
exceptTracker ==
    <<validateVars, sessionVars, mainVars, censusVars, lookupVars, modelVars, httpVars, cacheVars, extractVars, transformVars, clientVars, keyVars, statusVars,
      loadVars, ppc, run_state_fips, county_codes, next_county, run_id, all_wages, all_expenses,
      wage_rejects, expense_rejects, counties_processed, loaded, rejected, pending,
      staging, upsert_calls, end_run_calls, delays, results>>

\* The load functions work on the staging tables; the locals of process_state
\* stay idle.
exceptLoad ==
    <<validateVars, sessionVars, mainVars, censusVars, lookupVars, modelVars, httpVars, cacheVars, extractVars, transformVars, clientVars, keyVars, statusVars,
      trackerVars, ppc, run_state_fips, county_codes, next_county, run_id, etl_runs,
      all_wages, all_expenses, wage_rejects, expense_rejects, counties_processed, loaded,
      rejected, pending, upsert_calls, end_run_calls, delays, results>>

exceptCensus ==
    <<validateVars, sessionVars, mainVars, httpVars, cacheVars, extractVars, transformVars, pipelineVars, clientVars, keyVars,
      statusVars, trackerVars, loadVars, lookupVars, modelVars>>

exceptLookup ==
    <<validateVars, sessionVars, mainVars, httpVars, cacheVars, extractVars, transformVars, pipelineVars, clientVars, keyVars,
      statusVars, trackerVars, loadVars, censusVars, modelVars>>

exceptModels ==
    <<validateVars, sessionVars, mainVars, httpVars, cacheVars, extractVars, transformVars, pipelineVars, clientVars, keyVars,
      statusVars, trackerVars, loadVars, censusVars, lookupVars>>

exceptValidate ==
    <<httpVars, cacheVars, extractVars, transformVars, pipelineVars, clientVars, keyVars, statusVars,
      trackerVars, loadVars, censusVars, lookupVars, modelVars, sessionVars, mainVars>>

exceptSession ==
    <<httpVars, cacheVars, extractVars, transformVars, pipelineVars, clientVars, keyVars, statusVars,
      trackerVars, loadVars, censusVars, lookupVars, modelVars, validateVars, mainVars>>

exceptMain ==
    <<httpVars, cacheVars, extractVars, transformVars, pipelineVars, clientVars, keyVars, statusVars,
      trackerVars, loadVars, censusVars, lookupVars, modelVars, validateVars, sessionVars>>

exceptPipeline == <<httpVars, cacheVars, extractVars, transformVars, clientVars, keyVars, statusVars, trackerVars, loadVars, censusVars, lookupVars, modelVars, validateVars, sessionVars, mainVars>>

(***************************************************************************)
(* Bounds of the model.                                                    *)
(***************************************************************************)
MaxRetriesBound == 3

\* The largest TTL and the last day of the clock.
MaxTtlDays == 2

MaxClock == 3

\* The largest number of records loaded into, or rejected from, one table
\* that the status decision is applied to.
MaxCount == 3

\* The most rows table etl_runs gets in the run-tracking specification.
MaxRuns == 2

\* The most calls of the load functions in the load specification.
MaxLoadCalls == 2

(***************************************************************************)
(* HttpClient._fetch_with_retry                                            *)
(***************************************************************************)

\* What one call of _fetch can do: return the content, or raise one of the
\* requests exceptions.  raise_for_status raises HTTPError for 400..599.
StatusCodes == {400, 401, 403, 404, 429, 500, 501, 503, 599}

Outcome(kind, status) == [kind |-> kind, status |-> status]

NoExc == Outcome("none", 0)

HttpErrors == {Outcome("HTTPError", c) : c \in StatusCodes}

NetworkErrors == {Outcome("Timeout", 0), Outcome("ConnectionError", 0)}

\* A RequestException that is neither of the above (TooManyRedirects, ...).
OtherRequestErrors == {Outcome("RequestException", 0)}

RECURSIVE Pow2(_)
Pow2(n) == IF n = 0 THEN 1 ELSE 2 * Pow2(n - 1)

\* A _wait without the test of line 90: it sleeps after every failure.
WaitAlways(att, base_delay) == Append(sleeps, base_delay * Pow2(att))

\* A _wait without the factor 2 ** attempt: it sleeps base_delay.
WaitFlat(att, base_delay) ==
    IF att < max_retries - 1 THEN Append(sleeps, base_delay) ELSE sleeps

\* HttpClient._wait: the sleeps after the call.
Wait(att, base_delay) ==
    IF att < max_retries - 1
    THEN Append(sleeps, base_delay * Pow2(att))
    ELSE sleeps

\* A match statement without `case 404`: every status is backed off.
RetryEveryStatus(code) == "rate_limited"

\* The match statement of _fetch_with_retry on the status code of an HTTPError.
StatusClass(code) ==
    CASE code = 404 -> "not_found"
      [] code = 429 -> "rate_limited"
      [] code # 404 /\ code # 429 /\ code <= 500 /\ code <= 599 -> "server_error"
      [] OTHER -> "other"

\* A client on which no request has been made yet.
HttpStart ==
    /\ max_retries \in 1..MaxRetriesBound
    /\ hpc = "idle"
    /\ attempt = 0
    /\ calls = <<>>
    /\ sleeps = <<>>
    /\ last_exception = NoExc
    /\ raised = NoExc

\* The call: last_exception = None, the loop starts at attempt 0.
FetchWithRetry ==
    /\ hpc = "idle"
    /\ hpc' = "loop"
    /\ attempt' = 0
    /\ last_exception' = NoExc
    /\ UNCHANGED <<max_retries, calls, sleeps, raised>>

\* An iteration whose _fetch returns: the content is returned.
AttemptReturns ==
    /\ hpc = "loop" /\ attempt < max_retries
    /\ calls' = Append(calls, Outcome("ok", 200))
    /\ hpc' = "returned"
    /\ UNCHANGED <<max_retries, attempt, sleeps, last_exception, raised>>

\* The end of an iteration that failed with the retryable exception e:
\* _wait, then the next iteration or, after the last one, the loop's exit
\* ("Request failed after N attempts", raise last_exception).
RetryOrExhaust(e, base_delay) ==
    /\ last_exception' = e
    /\ sleeps' = Wait(attempt, base_delay)
    /\ attempt' = attempt + 1
    /\ IF attempt + 1 < max_retries
       THEN UNCHANGED <<hpc, raised>>
       ELSE hpc' = "raised" /\ raised' = e

\* An iteration whose _fetch raises Timeout or ConnectionError.
AttemptNetworkError ==
    /\ hpc = "loop" /\ attempt < max_retries
    /\ \E e \in NetworkErrors :
        /\ calls' = Append(calls, e)
        /\ RetryOrExhaust(e, 1)
    /\ UNCHANGED max_retries

\* An iteration whose _fetch raises HTTPError.
AttemptHTTPError ==
    /\ hpc = "loop" /\ attempt < max_retries
    /\ \E e \in HttpErrors :
        /\ calls' = Append(calls, e)
        /\ IF StatusClass(e.status) \in {"rate_limited", "server_error"}
           THEN RetryOrExhaust(e, 4)
           ELSE /\ last_exception' = e
                /\ hpc' = "raised"
                /\ raised' = e
                /\ UNCHANGED <<sleeps, attempt>>
    /\ UNCHANGED max_retries

\* An iteration whose _fetch raises another RequestException: re-raised.
AttemptRequestException ==
    /\ hpc = "loop" /\ attempt < max_retries
    /\ \E e \in OtherRequestErrors :
        /\ calls' = Append(calls, e)
        /\ last_exception' = e
        /\ hpc' = "raised"
        /\ raised' = e
    /\ UNCHANGED <<max_retries, attempt, sleeps>>

(***************************************************************************)
(* ResponseCache                                                           *)
(***************************************************************************)

\* The keys of the requests made (ResponseCache._hash_key names the file).
CacheKeys == {"counties/01001", "counties/01003"}

\* The contents cached, as bytes.
Contents == {<<104, 105>>, <<111, 108, 100, 33>>}

\* base64.b64encode: a sequence of 6-bit symbols, 64 standing for the pad '='.
RECURSIVE B64Encode(_)
B64Encode(b) ==
    IF Len(b) = 0 THEN <<>>
    ELSE IF Len(b) = 1
    THEN <<b[1] \div 4, (b[1] % 4) * 16, 64, 64>>
    ELSE IF Len(b) = 2
    THEN <<b[1] \div 4, (b[1] % 4) * 16 + b[2] \div 16, (b[2] % 16) * 4, 64>>
    ELSE <<b[1] \div 4, (b[1] % 4) * 16 + b[2] \div 16,
           (b[2] % 16) * 4 + b[3] \div 64, b[3] % 64>>
         \o B64Encode(SubSeq(b, 4, Len(b)))

\* base64.b64decode of a correctly padded string.
RECURSIVE B64Decode(_)
B64Decode(t) ==
    IF Len(t) = 0 THEN <<>>
    ELSE LET first == t[1] * 4 + t[2] \div 16
             second == (t[2] % 16) * 16 + t[3] \div 4
             third == (t[3] % 4) * 64 + t[4]
         IN  IF t[3] = 64 THEN <<first>>
             ELSE IF t[4] = 64 THEN <<first, second>>
             ELSE <<first, second, third>> \o B64Decode(SubSeq(t, 5, Len(t)))

\* A file of the cache directory.  json is what json.load makes of it:
\*   absent   there is no such file
\*   bad_utf8 the bytes are not UTF-8         bad_json  the text is not JSON
\*   list     the JSON value is not an object (a list, a string, a number)
\*   object   a JSON object, with its "timestamp" and "content" members:
\*            ts.tag: iso (an ISO date-time, val its day) | missing |
\*                    nonstring | badiso
\*            content.tag: b64 (a string, val its symbols) | missing | nonstring
File(json, ts, content) == [json |-> json, ts |-> ts, content |-> content]

Field(tag, val) == [tag |-> tag, val |-> val]

Missing == Field("missing", <<>>)

Absent == File("absent", Missing, Missing)

\* datetime.isoformat and datetime.fromisoformat of a day.
IsoFormat(day) == Field("iso", <<day>>)

FromIsoFormat(ts) == ts.val[1]

\* A store that writes the bytes without base64.b64encode.
StoredFileRaw(day, content) == File("object", IsoFormat(day), Field("b64", content))

\* The file ResponseCache.store writes.
StoredFile(day, content) ==
    File("object", IsoFormat(day), Field("b64", B64Encode(content)))

\* Files that no store call wrote whole: truncated, overwritten or edited.
CorruptFiles ==
    { File("bad_utf8", Missing, Missing),
      File("bad_json", Missing, Missing),
      File("list", Missing, Missing),
      File("object", Missing, Field("b64", B64Encode(<<104, 105>>))),
      File("object", Field("nonstring", <<>>), Field("b64", B64Encode(<<104, 105>>))),
      File("object", Field("badiso", <<>>), Field("b64", B64Encode(<<104, 105>>))),
      File("object", IsoFormat(0), Missing),
      File("object", IsoFormat(0), Field("nonstring", <<>>)),
      File("object", IsoFormat(0), Field("b64", <<26, 6, 36>>)) }

\* ResponseCache._is_expired
IsExpired(timestamp) == now - timestamp > ttl_days

\* The first exception that the body of get's try block raises on file f
\* ("none": it raises nothing).
GetException(f) ==
    IF f.json = "bad_utf8" THEN "UnicodeDecodeError"
    ELSE IF f.json = "bad_json" THEN "JSONDecodeError"
    ELSE IF f.json = "list" THEN "TypeError"
    ELSE IF f.ts.tag = "missing" THEN "KeyError"
    ELSE IF f.ts.tag = "nonstring" THEN "TypeError"
    ELSE IF f.ts.tag = "badiso" THEN "ValueError"
    ELSE IF IsExpired(FromIsoFormat(f.ts)) THEN "none"
    ELSE IF f.content.tag = "missing" THEN "KeyError"
    ELSE IF f.content.tag = "nonstring" THEN "TypeError"
    ELSE IF Len(f.content.val) % 4 # 0 THEN "binascii.Error"
    ELSE "none"

\* except (json.JSONDecodeError, KeyError, ValueError): UnicodeDecodeError and
\* binascii.Error are subclasses of ValueError.
GetCatches(exc) ==
    exc \in {"JSONDecodeError", "KeyError", "ValueError",
             "UnicodeDecodeError", "binascii.Error"}

None == Field("None", <<>>)

Bytes(b) == Field("bytes", b)

NoGet ==
    [key |-> "", before |-> Absent, after |-> Absent, at |-> 0,
     result |-> None, exc |-> "none"]

\* ResponseCache.get(key): what it returns or raises, and the directory after.
GetResult(key) ==
    LET f == files[key]
        exc == GetException(f)
    IN  IF f.json = "absent" THEN [result |-> None, exc |-> "none", unlink |-> FALSE]
        ELSE IF exc = "none"
        THEN IF IsExpired(FromIsoFormat(f.ts))
             THEN [result |-> None, exc |-> "none", unlink |-> FALSE]
             ELSE [result |-> Bytes(B64Decode(f.content.val)), exc |-> "none",
                   unlink |-> FALSE]
        ELSE IF GetCatches(exc)
        THEN [result |-> None, exc |-> "none", unlink |-> TRUE]
        ELSE [result |-> None, exc |-> exc, unlink |-> FALSE]

\* No store(key, ...) call was made.
NotStored == Field("none", <<>>)

\* No clear_expired call was made.
NoClear ==
    [called |-> FALSE, before |-> [k \in CacheKeys |-> Absent],
     after |-> [k \in CacheKeys |-> Absent], at |-> 0, count |-> 0, exc |-> "none"]

\* A cache directory as a run may find it.
CacheStart ==
    /\ ttl_days \in 1..MaxTtlDays
    /\ files \in [CacheKeys -> {Absent} \cup CorruptFiles
                                \cup {StoredFile(0, c) : c \in Contents}]
    /\ now = 0
    /\ lastGet = NoGet
    /\ stored = [k \in CacheKeys |-> NotStored]
    /\ lastClear = NoClear

CacheIdle ==
    /\ ttl_days = 1
    /\ files = [k \in CacheKeys |-> Absent]
    /\ now = 0
    /\ lastGet = NoGet
    /\ stored = [k \in CacheKeys |-> NotStored]
    /\ lastClear = NoClear

HttpIdle ==
    /\ max_retries = 1
    /\ hpc = "idle"
    /\ attempt = 0
    /\ calls = <<>>
    /\ sleeps = <<>>
    /\ last_exception = NoExc
    /\ raised = NoExc

\* ResponseCache.get(key)
Get(key) ==
    LET r == GetResult(key)
        after == IF r.unlink THEN Absent ELSE files[key]
    IN  /\ lastGet' = [key |-> key, before |-> files[key], after |-> after,
                       at |-> now, result |-> r.result, exc |-> r.exc]
        /\ files' = [files EXCEPT ![key] = after]
        /\ UNCHANGED <<ttl_days, now, stored, lastClear>>

\* ResponseCache.store(key, content)
Store(key, content) ==
    /\ files' = [files EXCEPT ![key] = StoredFile(now, content)]
    /\ stored' = [stored EXCEPT ![key] = Field("stored", <<content, now>>)]
    /\ UNCHANGED <<ttl_days, now, lastGet, lastClear>>

\* A day passes.
Tick ==
    /\ now < MaxClock
    /\ now' = now + 1
    /\ UNCHANGED <<ttl_days, files, lastGet, stored, lastClear>>

CacheGet == \E k \in CacheKeys : Get(k)

\* The first exception that the body of clear_expired's try block raises on
\* file f: the file is loaded and its timestamp parsed, its content is not
\* looked at.
ClearException(f) ==
    IF f.json = "bad_utf8" THEN "UnicodeDecodeError"
    ELSE IF f.json = "bad_json" THEN "JSONDecodeError"
    ELSE IF f.json = "list" THEN "TypeError"
    ELSE IF f.ts.tag = "missing" THEN "KeyError"
    ELSE IF f.ts.tag = "nonstring" THEN "TypeError"
    ELSE IF f.ts.tag = "badiso" THEN "ValueError"
    ELSE "none"

\* One turn of the loop of clear_expired on file f: the file is unlinked and
\* counted, or kept, or the exception leaves the function.
ClearFile(f) ==
    IF ClearException(f) = "none"
    THEN [unlink |-> IsExpired(FromIsoFormat(f.ts)), exc |-> "none"]
    ELSE IF GetCatches(ClearException(f))
    THEN [unlink |-> TRUE, exc |-> "none"]
    ELSE [unlink |-> FALSE, exc |-> ClearException(f)]

\* The loop of clear_expired over the files that glob yields, in its order.
RECURSIVE ClearLoop(_, _, _)
ClearLoop(fs, order, count) ==
    IF order = <<>> THEN [files |-> fs, count |-> count, exc |-> "none"]
    ELSE IF ClearFile(fs[Head(order)]).exc # "none"
    THEN [files |-> fs, count |-> count, exc |-> ClearFile(fs[Head(order)]).exc]
    ELSE IF ClearFile(fs[Head(order)]).unlink
    THEN ClearLoop([fs EXCEPT ![Head(order)] = Absent], Tail(order), count + 1)
    ELSE ClearLoop(fs, Tail(order), count)

\* The orders in which glob('*.json') can yield the files of the directory.
GlobOrders ==
    {order \in UNION {[1..n -> CacheKeys] : n \in 0..Cardinality(CacheKeys)} :
        /\ \A i, j \in 1..Len(order) : i # j => order[i] # order[j]
        /\ \A k \in CacheKeys : files[k] # Absent <=> \E i \in 1..Len(order) : order[i] = k}

\* ResponseCache.clear_expired()
ClearExpired ==
    /\ ~lastClear.called
    /\ \E order \in GlobOrders :
       \E r \in {ClearLoop(files, order, 0)} :
          /\ files' = r.files
          /\ lastClear' = [called |-> TRUE, before |-> files, after |-> r.files,
                           at |-> now, count |-> r.count, exc |-> r.exc]
    /\ UNCHANGED <<ttl_days, now, lastGet, stored>>

CacheStore == \E k \in CacheKeys, c \in Contents : Store(k, c)

(***************************************************************************)
(* HttpClient.get with a cache (use_cache=True, self.cache set)            *)
(***************************************************************************)
\* A get that never takes the cached content.
NeverHit(cached_content) == FALSE

\* if cached_content is not None
CacheHit(cached_content) == cached_content # None

ClientIdle ==
    /\ gpc = "idle"
    /\ get_key = ""
    /\ get_result = None
    /\ store_calls = <<>>

\* What the cache directory of the client holds for a page: nothing, an
\* entry written by store, or a file that get deletes or raises on.
ClientFiles ==
    {Absent, File("bad_json", Missing, Missing), File("list", Missing, Missing)}
        \cup {StoredFile(0, c) : c \in Contents}

\* The client of an extractor: one page has been requested before, the other
\* never.
ClientStart ==
    /\ ClientIdle
    /\ HttpStart
    /\ CacheStart
    /\ files["counties/01001"] \in ClientFiles
    /\ files["counties/01003"] = Absent

\* Lines 147-154: the key is built and looked up; a hit is returned, a miss
\* goes on to _fetch_with_retry, an exception of cache.get leaves get.
ClientGet ==
    /\ gpc = "idle"
    /\ \E key \in CacheKeys :
          /\ get_key' = key
          /\ Get(key)
          /\ IF GetResult(key).exc # "none"
             THEN gpc' = "raised" /\ get_result' = get_result
             ELSE IF CacheHit(GetResult(key).result)
             THEN gpc' = "returned" /\ get_result' = GetResult(key).result
             ELSE gpc' = "fetching" /\ get_result' = get_result
    /\ UNCHANGED <<store_calls, httpVars>>

\* Line 157: content = self._fetch_with_retry(url, params)
ClientFetch == gpc = "fetching" /\ FetchWithRetry /\ UNCHANGED <<clientVars, cacheVars>>

\* Lines 159-163: the content fetched is stored under the key and returned.
ClientStoreAndReturn ==
    /\ gpc = "fetching" /\ hpc = "returned"
    /\ \E content \in Contents :
          /\ Store(get_key, content)
          /\ store_calls' = Append(store_calls, [key |-> get_key, content |-> content])
          /\ get_result' = Bytes(content)
    /\ gpc' = "returned"
    /\ UNCHANGED <<get_key, httpVars>>

\* A get that stored what it had before the exception of _fetch_with_retry
\* leaves it.
ClientFetchRaisedAfterStore ==
    /\ gpc = "fetching" /\ hpc = "raised"
    /\ \E content \in Contents :
          /\ Store(get_key, content)
          /\ store_calls' = Append(store_calls, [key |-> get_key, content |-> content])
    /\ gpc' = "raised"
    /\ UNCHANGED <<get_key, get_result, httpVars>>

\* The exception of _fetch_with_retry leaves get.
ClientFetchRaised ==
    /\ gpc = "fetching" /\ hpc = "raised"
    /\ gpc' = "raised"
    /\ UNCHANGED <<get_key, get_result, store_calls, httpVars, cacheVars>>

(***************************************************************************)
(* Text.  A Python str is the sequence of its characters.                  *)
(***************************************************************************)
UpperLetters == <<"A", "B", "C", "D", "E", "F", "G", "H", "I", "J", "K", "L", "M", "N", "O", "P", "Q", "R", "S", "T", "U", "V", "W", "X", "Y", "Z">>

LowerLetters == <<"a", "b", "c", "d", "e", "f", "g", "h", "i", "j", "k", "l", "m", "n", "o", "p", "q", "r", "s", "t", "u", "v", "w", "x", "y", "z">>

Digits == <<"0", "1", "2", "3", "4", "5", "6", "7", "8", "9">>

InSeq(c, s) == \E i \in 1..Len(s) : s[i] = c

IndexIn(c, s) == CHOOSE i \in 1..Len(s) : s[i] = c

\* str.lower, one character
LowerChar(c) == IF InSeq(c, UpperLetters) THEN LowerLetters[IndexIn(c, UpperLetters)] ELSE c

\* str.lower
Lower(s) == IF s = <<>> THEN <<>> ELSE [i \in 1..Len(s) |-> LowerChar(s[i])]

\* The regular expression class \w
IsWordChar(c) == InSeq(c, UpperLetters) \/ InSeq(c, LowerLetters) \/ InSeq(c, Digits) \/ c = "_"

IsSpace(c) == c = " "

\* The characters of s at the positions i with keep[i], in order.
Filter(s, keep) ==
    IF s = <<>> THEN <<>> ELSE
    [k \in 1..Len(SelectSeq([i \in 1..Len(s) |-> i], LAMBDA i : keep[i])) |->
        s[SelectSeq([i \in 1..Len(s) |-> i], LAMBDA i : keep[i])[k]]]

\* The positions at which old occurs in s.
Occurrences(s, old) ==
    {i \in 1..(Len(s) - Len(old) + 1) : SubSeq(s, i, i + Len(old) - 1) = old}

\* str.replace(old, new) for a non-empty old: the leftmost occurrence is
\* replaced, then the occurrences after it.
RECURSIVE Replace(_, _, _)
Replace(s, old, new) ==
    IF Len(s) < Len(old) \/ Occurrences(s, old) = {} THEN s
    ELSE SubSeq(s, 1, (CHOOSE i \in Occurrences(s, old) :
                          \A j \in Occurrences(s, old) : i <= j) - 1)
         \o new
         \o Replace(SubSeq(s, (CHOOSE i \in Occurrences(s, old) :
                                  \A j \in Occurrences(s, old) : i <= j) + Len(old),
                           Len(s)),
                    old, new)

\* str.lstrip, str.rstrip, str.strip
RECURSIVE LStrip(_)
LStrip(s) == IF s # <<>> /\ IsSpace(Head(s)) THEN LStrip(Tail(s)) ELSE s

RECURSIVE RStrip(_)
RStrip(s) == IF s # <<>> /\ IsSpace(s[Len(s)]) THEN RStrip(SubSeq(s, 1, Len(s) - 1)) ELSE s

Strip(s) == RStrip(LStrip(s))

\* Runs of white space become one space.
SqueezeSpaces(s) ==
    IF s = <<>> THEN <<>> ELSE
    Filter(s, [i \in 1..Len(s) |-> ~(IsSpace(s[i]) /\ i > 1 /\ IsSpace(s[i - 1]))])

\* " ".join(s.split()): the words of s joined by single spaces
JoinSplit(s) == SqueezeSpaces(Strip(s))

\* re.sub(r"(\w)\(", r"\1 (", s): a space goes before every "(" that
\* follows a word character.  Slot 2i holds s[i], slot 2i - 1 the space
\* that may go before it.
SpaceBeforeParen(s) ==
    IF s = <<>> THEN <<>> ELSE
    Filter([k \in 1..(2 * Len(s)) |-> IF k % 2 = 0 THEN s[k \div 2] ELSE " "],
           [k \in 1..(2 * Len(s)) |-> \/ k % 2 = 0
                                      \/ /\ k > 1
                                         /\ s[(k + 1) \div 2] = "("
                                         /\ IsWordChar(s[(k - 1) \div 2])])

\* re.sub(r"[^\w]+", " ", s): every run of non-word characters becomes one
\* space.
NonWordToSpace(s) ==
    IF s = <<>> THEN <<>> ELSE
    Filter([i \in 1..Len(s) |-> IF IsWordChar(s[i]) THEN s[i] ELSE " "],
           [i \in 1..Len(s) |-> IsWordChar(s[i]) \/ i = 1 \/ IsWordChar(s[i - 1])])

\* str.zfill(width)
RECURSIVE ZFill(_, _)
ZFill(s, width) == IF Len(s) >= width THEN s ELSE ZFill(<<"0">> \o s, width)

\* str.isdigit
IsDigitStr(s) == s # <<>> /\ \A i \in 1..Len(s) : InSeq(s[i], Digits)

(***************************************************************************)
(* src/transform/constants.py and src/transform/normalizers.py             *)
(***************************************************************************)
\* A value that is None (NaN in a numeric column).
NullInt == -1

Meta(a, w, c) == [adults |-> a, working_adults |-> w, children |-> c]

NoMeta == Meta(NullInt, NullInt, NullInt)

\* FAMILY_CONFIG_MAP: its keys, and the entry of each key, in source order.
FamilyConfigKeys ==
    << <<"1", " ", "A", "d", "u", "l", "t">>, <<"1", " ", "A", "d", "u", "l", "t", " ", "1", " ", "C", "h", "i", "l", "d">>, <<"1", " ", "A", "d", "u", "l", "t", " ", "2", " ", "C", "h", "i", "l", "d", "r", "e", "n">>, <<"1", " ", "A", "d", "u", "l", "t", " ", "3", " ", "C", "h", "i", "l", "d", "r", "e", "n">>,
       <<"2", " ", "A", "d", "u", "l", "t", "s", " ", "(", "1", " ", "W", "o", "r", "k", "i", "n", "g", ")">>, <<"2", " ", "A", "d", "u", "l", "t", "s", " ", "(", "1", " ", "W", "o", "r", "k", "i", "n", "g", ")", " ", "1", " ", "C", "h", "i", "l", "d">>,
       <<"2", " ", "A", "d", "u", "l", "t", "s", " ", "(", "1", " ", "W", "o", "r", "k", "i", "n", "g", ")", " ", "2", " ", "C", "h", "i", "l", "d", "r", "e", "n">>, <<"2", " ", "A", "d", "u", "l", "t", "s", " ", "(", "1", " ", "W", "o", "r", "k", "i", "n", "g", ")", " ", "3", " ", "C", "h", "i", "l", "d", "r", "e", "n">>,
       <<"2", " ", "A", "d", "u", "l", "t", "s">>, <<"2", " ", "A", "d", "u", "l", "t", "s", " ", "1", " ", "C", "h", "i", "l", "d">>, <<"2", " ", "A", "d", "u", "l", "t", "s", " ", "2", " ", "C", "h", "i", "l", "d", "r", "e", "n">>, <<"2", " ", "A", "d", "u", "l", "t", "s", " ", "3", " ", "C", "h", "i", "l", "d", "r", "e", "n">> >>

FamilyConfigValues ==
    << Meta(1, 1, 0), Meta(1, 1, 1), Meta(1, 1, 2), Meta(1, 1, 3),
       Meta(2, 1, 0), Meta(2, 1, 1), Meta(2, 1, 2), Meta(2, 1, 3),
       Meta(2, 2, 0), Meta(2, 2, 1), Meta(2, 2, 2), Meta(2, 2, 3) >>

\* normalizers.normalize_header_for_lookup
normalize_header_for_lookup(header) ==
    IF header = <<>> THEN <<>> ELSE
    LET lowered == Lower(header)
        unseparated == Replace(lowered, <<" ", "-", " ">>, <<" ">>)
        spaced == SpaceBeforeParen(unseparated)
        collapsed == JoinSplit(spaced)
        working == Strip(Replace(collapsed, <<"(", "b", "o", "t", "h", " ", "w", "o", "r", "k", "i", "n", "g", ")">>, <<>>))
        nochild == Strip(Replace(Replace(working, <<" ", "0", " ", "c", "h", "i", "l", "d", "r", "e", "n">>, <<>>), <<" ", "0", " ", "c", "h", "i", "l", "d">>, <<>>))
    IN  JoinSplit(nochild)

\* normalizers.get_family_config_metadata: FAMILY_CONFIG_MAP.get(normalized),
\* NoMeta standing for None.
get_family_config_metadata(header) ==
    LET normalized == normalize_header_for_lookup(header)
    IN  IF InSeq(normalized, FamilyConfigKeys)
        THEN FamilyConfigValues[IndexIn(normalized, FamilyConfigKeys)]
        ELSE NoMeta

\* CATEGORY_MAP, keys and values in source order.
CategoryKeys ==
    << <<"l", "i", "v", "i", "n", "g", " ", "w", "a", "g", "e">>, <<"p", "o", "v", "e", "r", "t", "y", " ", "w", "a", "g", "e">>, <<"m", "i", "n", "i", "m", "u", "m", " ", "w", "a", "g", "e">>,
       <<"f", "o", "o", "d">>, <<"c", "h", "i", "l", "d", " ", "c", "a", "r", "e">>, <<"c", "h", "i", "l", "d", "c", "a", "r", "e">>, <<"h", "o", "u", "s", "i", "n", "g">>, <<"t", "r", "a", "n", "s", "p", "o", "r", "t", "a", "t", "i", "o", "n">>,
       <<"m", "e", "d", "i", "c", "a", "l">>, <<"m", "e", "d", "i", "c", "a", "l", " ", "c", "a", "r", "e">>, <<"h", "e", "a", "l", "t", "h", " ", "c", "a", "r", "e">>, <<"o", "t", "h", "e", "r">>, <<"c", "i", "v", "i", "c">>,
       <<"i", "n", "t", "e", "r", "n", "e", "t", " ", "&", " ", "m", "o", "b", "i", "l", "e">>, <<"i", "n", "t", "e", "r", "n", "e", "t", "_", "m", "o", "b", "i", "l", "e">>,
       <<"r", "e", "q", "u", "i", "r", "e", "d", " ", "a", "n", "n", "u", "a", "l", " ", "i", "n", "c", "o", "m", "e", " ", "a", "f", "t", "e", "r", " ", "t", "a", "x", "e", "s">>, <<"a", "n", "n", "u", "a", "l", " ", "t", "a", "x", "e", "s">>,
       <<"r", "e", "q", "u", "i", "r", "e", "d", " ", "a", "n", "n", "u", "a", "l", " ", "i", "n", "c", "o", "m", "e", " ", "b", "e", "f", "o", "r", "e", " ", "t", "a", "x", "e", "s">> >>

CategoryValues ==
    << <<"l", "i", "v", "i", "n", "g">>, <<"p", "o", "v", "e", "r", "t", "y">>, <<"m", "i", "n", "i", "m", "u", "m">>,
       <<"f", "o", "o", "d">>, <<"c", "h", "i", "l", "d", "c", "a", "r", "e">>, <<"c", "h", "i", "l", "d", "c", "a", "r", "e">>, <<"h", "o", "u", "s", "i", "n", "g">>, <<"t", "r", "a", "n", "s", "p", "o", "r", "t", "a", "t", "i", "o", "n">>,
       <<"h", "e", "a", "l", "t", "h", "c", "a", "r", "e">>, <<"h", "e", "a", "l", "t", "h", "c", "a", "r", "e">>, <<"h", "e", "a", "l", "t", "h", "c", "a", "r", "e">>, <<"o", "t", "h", "e", "r">>, <<"c", "i", "v", "i", "c">>,
       <<"i", "n", "t", "e", "r", "n", "e", "t", "_", "m", "o", "b", "i", "l", "e">>, <<"i", "n", "t", "e", "r", "n", "e", "t", "_", "m", "o", "b", "i", "l", "e">>,
       <<"r", "e", "q", "u", "i", "r", "e", "d", "_", "a", "f", "t", "e", "r", "_", "t", "a", "x">>, <<"a", "n", "n", "u", "a", "l", "_", "t", "a", "x", "e", "s">>,
       <<"r", "e", "q", "u", "i", "r", "e", "d", "_", "b", "e", "f", "o", "r", "e", "_", "t", "a", "x">> >>

\* normalizers.normalize_category_key
normalize_category_key(text) == Strip(NonWordToSpace(Lower(Strip(text))))

\* normalizers.lookup_category_value
lookup_category_value(key) ==
    LET normalized == normalize_category_key(key)
    IN  IF InSeq(normalized, CategoryKeys)
        THEN CategoryValues[IndexIn(normalized, CategoryKeys)]
        ELSE Replace(normalized, <<" ">>, <<"_">>)

(***************************************************************************)
(* HttpClient._build_url and HttpClient._build_cache_key                   *)
(***************************************************************************)
\* The characters of the sample requests in the order of their code points.
CodePoints ==
    <<" ", "&", "+", "/", "0", "1", "2", "3", "4", "5", "6", "7", "8", "9", ":", "=", "?",
      "N", "a", "b", "e", "h", "n", "o", "p", "t", "x", "y">>

\* a < b for two str
RECURSIVE StrLess(_, _)
StrLess(a, b) ==
    IF b = <<>> THEN FALSE
    ELSE IF a = <<>> THEN TRUE
    ELSE IF Head(a) # Head(b)
    THEN IndexIn(Head(a), CodePoints) < IndexIn(Head(b), CodePoints)
    ELSE StrLess(Tail(a), Tail(b))

\* sorted(params.items()): the keys of a dict are distinct, so the items are
\* ordered by key.
RECURSIVE SortedItems(_)
SortedItems(items) ==
    IF items = <<>> THEN <<>>
    ELSE <<items[CHOOSE i \in 1..Len(items) :
                    \A j \in 1..Len(items) : ~StrLess(items[j][1], items[i][1])]>>
         \o SortedItems(SelectSeq(items, LAMBDA it :
                \E j \in 1..Len(items) : StrLess(items[j][1], it[1])))

\* urllib.parse.quote_plus of one character
QuotePlusChar(c) ==
    CASE c = " " -> <<"+">>
      [] c = "&" -> <<"%", "2", "6">>
      [] c = "+" -> <<"%", "2", "B">>
      [] c = "/" -> <<"%", "2", "F">>
      [] c = ":" -> <<"%", "3", "A">>
      [] c = "=" -> <<"%", "3", "D">>
      [] c = "?" -> <<"%", "3", "F">>
      [] OTHER -> <<c>>

\* urllib.parse.quote_plus(str(v))
RECURSIVE QuotePlus(_)
QuotePlus(v) ==
    IF v = <<>> THEN <<>> ELSE QuotePlusChar(Head(v)) \o QuotePlus(Tail(v))

\* A parameter whose value is None.
NoneParam == <<"<None>">>

\* str(v) of a parameter key or value
StrParam(v) == IF v = NoneParam THEN <<"N", "o", "n", "e">> ELSE v

\* urlencode(items): k=v joined by "&".
RECURSIVE UrlEncode(_)
UrlEncode(items) ==
    IF items = <<>> THEN <<>>
    ELSE QuotePlus(StrParam(items[1][1])) \o <<"=">> \o QuotePlus(StrParam(items[1][2]))
         \o (IF Len(items) = 1 THEN <<>> ELSE <<"&">> \o UrlEncode(Tail(items)))

\* params=None
NoParams == << <<"<None>">> >>

\* HttpClient._build_cache_key(endpoint, params)
BuildCacheKey(endpoint, params) ==
    IF params # NoParams /\ params # <<>>
    THEN endpoint \o <<"?">> \o UrlEncode(SortedItems(params))
    ELSE endpoint

\* endpoint.startswith(prefix)
StartsWith(s, prefix) == Len(s) >= Len(prefix) /\ SubSeq(s, 1, Len(prefix)) = prefix

\* endpoint.lstrip('/')
RECURSIVE LStripSlash(_)
LStripSlash(s) == IF s # <<>> /\ Head(s) = "/" THEN LStripSlash(Tail(s)) ELSE s

\* HttpClient._build_url(endpoint)
BuildUrl(base_url, endpoint) ==
    IF StartsWith(endpoint, <<"h", "t", "t", "p", ":", "/", "/">>) \/ StartsWith(endpoint, <<"h", "t", "t", "p", "s", ":", "/", "/">>)
    THEN endpoint
    ELSE base_url \o <<"/">> \o LStripSlash(endpoint)

\* The client of the sample requests.
BaseUrl == <<"h", "t", "t", "p", ":", "/", "/", "h">>

Endpoints == {<<"a">>, <<"/", "a">>, <<"b">>, <<"a", "?", "x", "=", "1">>, <<"h", "t", "t", "p", ":", "/", "/", "h", "/", "a">>}

\* params: None, an empty dict, and dicts in the order their items were
\* inserted.
ParamDicts ==
    { NoParams, <<>>,
      << <<<<"x">>, <<"1">>>> >>, << <<<<"x">>, <<"2">>>> >>, << <<<<"x">>, NoneParam>> >>,
      << <<<<"x">>, <<"N", "o", "n", "e">>>> >>,
      << <<<<"x">>, <<"1">>>>, <<<<"y">>, <<"a", " ", "b">>>> >>, << <<<<"y">>, <<"a", " ", "b">>>>, <<<<"x">>, <<"1">>>> >>,
      << <<<<"x">>, <<"a", " ", "b">>>>, <<<<"y">>, <<"1">>>> >> }

KeyIdle == keyreq = <<>>

\* Lines 147-148 of get: url = self._build_url(endpoint);
\* cache_key = self._build_cache_key(endpoint, params)
BuiltRequest(endpoint, params) ==
    [endpoint |-> endpoint, params |-> params, url |-> BuildUrl(BaseUrl, endpoint),
     cache_key |-> BuildCacheKey(endpoint, params)]

\* Two requests are made through the client.
BuildKeys ==
    /\ keyreq = <<>>
    /\ \E e1 \in Endpoints, e2 \in Endpoints, p1 \in ParamDicts, p2 \in ParamDicts :
          keyreq' = <<BuiltRequest(e1, p1), BuiltRequest(e2, p2)>>

(***************************************************************************)
(* WageExtractor (src/extract/wage_scraper.py)                             *)
(***************************************************************************)
\* None in a cell or a column (never a sequence of characters).
NullCell == <<"<None>">>

\* A dict, in insertion order: a sequence of <<key, value>> with distinct keys.
DictKeys(d) == [i \in 1..Len(d) |-> d[i][1]]

DictHas(d, k) == \E i \in 1..Len(d) : d[i][1] = k

DictGet(d, k) == d[CHOOSE i \in 1..Len(d) : d[i][1] = k][2]

\* d[k] = v
DictSet(d, k, v) ==
    IF DictHas(d, k)
    THEN [i \in 1..Len(d) |-> IF d[i][1] = k THEN <<k, v>> ELSE d[i]]
    ELSE Append(d, <<k, v>>)

\* dict(zip(keys, values)): zip stops at the shorter of the two, and a key
\* met again keeps its place and takes the later value.
RECURSIVE DictZipFrom(_, _, _, _)
DictZipFrom(keys, values, i, d) ==
    IF i > Len(keys) \/ i > Len(values) THEN d
    ELSE DictZipFrom(keys, values, i + 1, DictSet(d, keys[i], values[i]))

DictZip(keys, values) == DictZipFrom(keys, values, 1, <<>>)

\* An exception: its class, the text of its message and the number in it.
Exc(type, msg, n) == [type |-> type, msg |-> msg, n |-> n]

NoError == Exc("none", "", 0)

\* A <th> of the first header row, and a results table: its <thead>s (each
\* the cells of its first <tr>) and the rows of its <tbody>.
Th(text, colspan) == [text |-> text, colspan |-> colspan]

HtmlTable(theads, tbody) == [theads |-> theads, tbody |-> tbody]

\* for adult_text, colspan in adult_configs: for _ in range(colspan): ...
RECURSIVE CombineHeaders(_, _, _, _)
CombineHeaders(adult_configs, child_counts, col_index, headers) ==
    IF adult_configs = <<>> THEN headers
    ELSE LET adult == Head(adult_configs)
         IN  IF adult.colspan <= 0
             THEN CombineHeaders(Tail(adult_configs), child_counts, col_index, headers)
             ELSE CombineHeaders(
                    <<Th(adult.text, adult.colspan - 1)>> \o Tail(adult_configs),
                    child_counts,
                    IF col_index < Len(child_counts) THEN col_index + 1 ELSE col_index,
                    IF col_index < Len(child_counts)
                    THEN Append(headers, adult.text \o <<" ", "-", " ">> \o child_counts[col_index + 1])
                    ELSE headers)

\* WageExtractor._extract_headers: the headers, or the exception raised.
\* (col_index counts from 0 in the source: child_counts[col_index] is the
\* element col_index + 1 of the sequence.)
ExtractHeaders(table) ==
    IF Len(table.theads) < 2
    THEN [exc |-> Exc("ValueError", "Unexpected table header format", 0), headers |-> <<>>]
    ELSE LET first_row == table.theads[1]
             adult_configs == SelectSeq(first_row, LAMBDA th : th.text # <<>>)
             child_counts == [i \in 1..Len(table.theads[2]) |-> table.theads[2][i].text]
         IN  IF child_counts = <<>>
             THEN [exc |-> Exc("IndexError", "list index out of range", 0), headers |-> <<>>]
             ELSE [exc |-> NoError,
                   headers |-> CombineHeaders(
                       adult_configs, child_counts, 1,
                       <<IF child_counts[1] # <<>> THEN child_counts[1] ELSE <<"C", "a", "t", "e", "g", "o", "r", "y">>>>)]

\* A fit that truncates a longer row and leaves a shorter one as it is.
FitRowTruncateOnly(row, n) == IF Len(row) < n THEN row ELSE SubSeq(row, 1, n)

\* The pad or truncate of one body row in _extract_table.
FitRow(row, n) ==
    IF Len(row) < n THEN row \o [i \in 1..(n - Len(row)) |-> NullCell]
    ELSE SubSeq(row, 1, n)

\* WageExtractor._extract_table
ExtractTable(table, county_fips) ==
    LET h == ExtractHeaders(table)
        fips == ZFill(county_fips, 3)
    IN  IF h.exc # NoError THEN [exc |-> h.exc, rows |-> <<>>]
        ELSE [exc |-> NoError,
              rows |-> [i \in 1..Len(table.tbody) |->
                          DictSet(DictZip(h.headers, FitRow(table.tbody[i], Len(h.headers))),
                                  <<"c", "o", "u", "n", "t", "y", "_", "f", "i", "p", "s">>, fips)]]

\* A parse that is content with one results table and reads it twice.
ParsePageOneTable(page, county_fips) ==
    IF Len(page) < 1
    THEN [exc |-> Exc("ValueError", "Expected at least 2 tables, found", Len(page)),
          wages_data |-> <<>>, expenses_data |-> <<>>]
    ELSE [exc |-> ExtractTable(page[1], county_fips).exc,
          wages_data |-> ExtractTable(page[1], county_fips).rows,
          expenses_data |-> ExtractTable(page[Len(page)], county_fips).rows]

\* WageExtractor._parse_page on a page, given as its results tables in
\* document order: the dict returned (wages_data, expenses_data), or the
\* exception raised.
ParsePage(page, county_fips) ==
    IF Len(page) < 2
    THEN [exc |-> Exc("ValueError", "Expected at least 2 tables, found", Len(page)),
          wages_data |-> <<>>, expenses_data |-> <<>>]
    ELSE LET w == ExtractTable(page[1], county_fips)
             e == ExtractTable(page[2], county_fips)
         IN  IF w.exc # NoError
             THEN [exc |-> w.exc, wages_data |-> <<>>, expenses_data |-> <<>>]
             ELSE IF e.exc # NoError
             THEN [exc |-> e.exc, wages_data |-> <<>>, expenses_data |-> <<>>]
             ELSE [exc |-> NoError, wages_data |-> w.rows, expenses_data |-> e.rows]

(***************************************************************************)
(* Pandas operations (src/transform/pandas_ops.py, validation.py)          *)
(***************************************************************************)
\* A DataFrame: its column labels and its rows, each row aligned with them.
DataFrame(columns, rows) == [columns |-> columns, rows |-> rows]

EmptyDataFrame == DataFrame(<<>>, <<>>)

\* df.empty
IsEmpty(df) == df.columns = <<>> \/ df.rows = <<>>

ColumnIndex(df, c) == CHOOSE i \in 1..Len(df.columns) : df.columns[i] = c

\* str(v) of a cell
StrCell(v) == IF v = NullCell THEN <<"N", "o", "n", "e">> ELSE v

\* The labels of pd.DataFrame(data): the keys of the row dicts in the order
\* they are first met.
RECURSIVE UnionKeys(_, _)
UnionKeys(keys, columns) ==
    IF keys = <<>> THEN columns
    ELSE UnionKeys(Tail(keys),
                   IF InSeq(Head(keys), columns) THEN columns
                   ELSE Append(columns, Head(keys)))

RECURSIVE FrameColumns(_, _)
FrameColumns(data, columns) ==
    IF data = <<>> THEN columns
    ELSE FrameColumns(Tail(data), UnionKeys(DictKeys(Head(data)), columns))

\* table_to_dataframe
table_to_dataframe(data) ==
    IF data = <<>> THEN EmptyDataFrame
    ELSE LET columns == FrameColumns(data, <<>>)
             cell(row, c) ==
                 LET v == IF DictHas(row, c) THEN DictGet(row, c) ELSE NullCell
                 IN  IF c = <<"c", "o", "u", "n", "t", "y", "_", "f", "i", "p", "s">> THEN ZFill(StrCell(v), 3) ELSE v
         IN  DataFrame(columns,
                       [i \in 1..Len(data) |->
                           [j \in 1..Len(columns) |-> cell(data[i], columns[j])]])

\* df.isna().sum().sum()
RECURSIVE CountNulls(_)
CountNulls(cells) ==
    IF cells = <<>> THEN 0
    ELSE (IF Head(cells) = NullCell THEN 1 ELSE 0) + CountNulls(Tail(cells))

RECURSIVE FrameNulls(_)
FrameNulls(rows) ==
    IF rows = <<>> THEN 0 ELSE CountNulls(Head(rows)) + FrameNulls(Tail(rows))

\* validate_wide_format_input: the messages appended to errors, in order;
\* the frame is valid when there is none.  (null_ratio > 0.10 is compared
\* as nulls * 10 > total_cells.)
WideFormatErrors(df) ==
    IF IsEmpty(df) THEN <<"DataFrame is empty">>
    ELSE (IF \E i \in 1..Len(df.columns) : Lower(df.columns[i]) = <<"c", "a", "t", "e", "g", "o", "r", "y">>
          THEN <<>> ELSE <<"'category' column not found">>)
         \o
         (IF FrameNulls(df.rows) * 10 > Len(df.rows) * Len(df.columns)
          THEN <<"DataFrame has more than 10% null values">> ELSE <<>>)

validate_wide_format_input(df) ==
    [valid |-> WideFormatErrors(df) = <<>>, errors |-> WideFormatErrors(df)]

\* The value of a string of digits.
RECURSIVE DigitsToNat(_)
DigitsToNat(s) ==
    IF s = <<>> THEN 0
    ELSE DigitsToNat(SubSeq(s, 1, Len(s) - 1)) * 10 + (IndexIn(s[Len(s)], Digits) - 1)

AllDigits(s) == \A i \in 1..Len(s) : InSeq(s[i], Digits)

\* pd.to_numeric(cleaned, errors="coerce").fillna(0) on one value: a decimal
\* numeral with an optional sign becomes its amount, anything else becomes 0.
\* Amounts are kept in hundredths.
ToNumeric(s) ==
    LET negative == s # <<>> /\ s[1] = "-"
        u == IF s # <<>> /\ s[1] \in {"-", "+"} THEN Tail(s) ELSE s
        d == IF InSeq(".", u) THEN IndexIn(".", u) ELSE Len(u) + 1
        whole == SubSeq(u, 1, d - 1)
        frac == SubSeq(u, d + 1, Len(u))
        hundredths == DigitsToNat(SubSeq(frac \o <<"0", "0">>, 1, 2))
        amount == DigitsToNat(whole) * 100 + hundredths
    IN  IF AllDigits(whole) /\ AllDigits(frac) /\ Len(whole) + Len(frac) >= 1
        THEN (IF negative THEN 0 - amount ELSE amount)
        ELSE 0

\* clean_currency_columns on one value
clean_currency(v) ==
    ToNumeric(Strip(Replace(Replace(StrCell(v), <<"$">>, <<>>), <<",">>, <<>>)))

\* A row of the long frame.  category and family are the melted columns,
\* label is wage_type or expense_category, amount is hourly_wage or
\* annual_amount; a row made by model_dump has no category and no family.
LongRow(category, family, adults, working_adults, children, label, amount,
        county_fips, page_updated_at, dumped) ==
    [category |-> category, family |-> family, adults |-> adults,
     working_adults |-> working_adults, children |-> children, label |-> label,
     amount |-> amount, county_fips |-> county_fips,
     page_updated_at |-> page_updated_at, dumped |-> dumped]

\* The renaming of the columns in normalize_wages / normalize_expenses.
RenameColumns(columns) ==
    [i \in 1..Len(columns) |->
        IF columns[i] \in {<<"C", "a", "t", "e", "g", "o", "r", "y">>, <<"c", "o", "u", "n", "t", "y", "_", "f", "i", "p", "s">>} THEN Lower(columns[i])
        ELSE columns[i]]

\* _melt_family_configs: value_vars
ValueVars(columns) ==
    SelectSeq(columns, LAMBDA c : Lower(c) \notin {<<"c", "a", "t", "e", "g", "o", "r", "y">>, <<"c", "o", "u", "n", "t", "y", "_", "f", "i", "p", "s">>})

\* add_family_config_columns on one row, given the metadata found for its
\* family header (None becomes NullInt in each of the three columns).
add_family_config_columns(row, meta) ==
    [row EXCEPT !.adults = meta.adults, !.working_adults = meta.working_adults,
                !.children = meta.children]

\* lookup_category_value(key) or key
MapOrFallback(key, found) == IF found # <<>> THEN found ELSE key

\* normalize_category_column on one value
normalize_category_column(category) ==
    MapOrFallback(normalize_category_key(StrCell(category)),
                  lookup_category_value(normalize_category_key(StrCell(category))))

\* _melt_family_configs followed by the cleaning steps, for one cell of the
\* wide frame.
MeltedRow(df, i, family, full_fips, page_updated_at) ==
    add_family_config_columns(
        LongRow(df.rows[i][ColumnIndex(df, <<"c", "a", "t", "e", "g", "o", "r", "y">>)], family,
                NullInt, NullInt, NullInt,
                normalize_category_column(df.rows[i][ColumnIndex(df, <<"c", "a", "t", "e", "g", "o", "r", "y">>)]),
                clean_currency(df.rows[i][ColumnIndex(df, family)]),
                full_fips, page_updated_at, FALSE),
        get_family_config_metadata(normalize_header_for_lookup(StrCell(family))))

\* df.melt: the value columns one after another, each over all the rows.
Melt(df, full_fips, page_updated_at) ==
    LET vv == ValueVars(df.columns)
        n == Len(df.rows)
    IN  [k \in 1..(Len(vv) * n) |->
            MeltedRow(df, ((k - 1) % n) + 1, vv[((k - 1) \div n) + 1],
                      full_fips, page_updated_at)]

(***************************************************************************)
(* Transform models (src/transform/models.py)                              *)
(***************************************************************************)
WageTypes == {<<"l", "i", "v", "i", "n", "g">>, <<"p", "o", "v", "e", "r", "t", "y">>, <<"m", "i", "n", "i", "m", "u", "m">>}

ExpenseCategories ==
    {<<"f", "o", "o", "d">>, <<"c", "h", "i", "l", "d", "c", "a", "r", "e">>, <<"h", "o", "u", "s", "i", "n", "g">>, <<"t", "r", "a", "n", "s", "p", "o", "r", "t", "a", "t", "i", "o", "n">>, <<"h", "e", "a", "l", "t", "h", "c", "a", "r", "e">>, <<"o", "t", "h", "e", "r">>,
     <<"c", "i", "v", "i", "c">>, <<"i", "n", "t", "e", "r", "n", "e", "t", "_", "m", "o", "b", "i", "l", "e">>, <<"r", "e", "q", "u", "i", "r", "e", "d", "_", "a", "f", "t", "e", "r", "_", "t", "a", "x">>, <<"a", "n", "n", "u", "a", "l", "_", "t", "a", "x", "e", "s">>,
     <<"r", "e", "q", "u", "i", "r", "e", "d", "_", "b", "e", "f", "o", "r", "e", "_", "t", "a", "x">>}

validate_county_fips(v) == Len(ZFill(v, 5)) = 5 /\ IsDigitStr(ZFill(v, 5))

validate_adults(v) == v \in {1, 2}

\* info.data holds adults only when adults itself was valid.
validate_working_adults(v, adults) ==
    /\ v # NullInt
    /\ v >= 1
    /\ validate_adults(adults) => v <= adults

\* A bound of four children.
validate_children_upto4(v) == v # NullInt /\ v >= 0 /\ v <= 4

validate_children(v) == v # NullInt /\ v >= 0 /\ v <= 3

\* BaseRecord accepts the row.
BaseRecordValid(r) ==
    /\ validate_county_fips(r.county_fips)
    /\ r.page_updated_at # NullInt
    /\ validate_adults(r.adults)
    /\ validate_working_adults(r.working_adults, r.adults)
    /\ validate_children(r.children)

WageRecordValid(r) == BaseRecordValid(r) /\ r.label \in WageTypes /\ r.amount >= 0

ExpenseRecordValid(r) ==
    BaseRecordValid(r) /\ r.label \in ExpenseCategories /\ r.amount >= 0

\* model_class(**row.to_dict()) succeeds
RecordValid(model_class, r) ==
    IF model_class = "WageRecord" THEN WageRecordValid(r) ELSE ExpenseRecordValid(r)

\* m.model_dump()
ModelDump(r) ==
    LongRow(<<>>, <<>>, r.adults, r.working_adults, r.children, r.label, r.amount,
            ZFill(r.county_fips, 5), r.page_updated_at, TRUE)

\* [m.model_dump() for m in models]
DumpAll(models) == [i \in 1..Len(models) |-> ModelDump(models[i])]

\* dataframe_to_models: the models, and the row_index of every error.
dataframe_to_models(rows, model_class) ==
    [models |-> DumpAll(SelectSeq(rows, LAMBDA r : RecordValid(model_class, r))),
     errors |-> SelectSeq([i \in 1..Len(rows) |-> i],
                          LAMBDA i : ~RecordValid(model_class, rows[i]))]

\* if errors: logger.warning(...) else: long_df = pd.DataFrame(model dumps)
\* errors is the local list, which is only logged.
KeepOrReplace(long_df, checked) ==
    IF checked.errors # <<>>
    THEN [exc |-> NoError, rows |-> long_df, errors |-> checked.errors]
    ELSE [exc |-> NoError, rows |-> checked.models, errors |-> <<>>]

\* The validate=True part of normalize_wages / normalize_expenses.
ValidateFrame(long_df, model_class) ==
    KeepOrReplace(long_df, dataframe_to_models(long_df, model_class))

\* The two codes joined as they are.
FullFipsUnpadded(state_fips, county_fips) == state_fips \o county_fips

\* full_fips = str(state_fips).zfill(2) + str(county_fips).zfill(3)
FullFips(state_fips, county_fips) == ZFill(state_fips, 2) \o ZFill(county_fips, 3)

\* normalize_wages (model_class WageRecord) and normalize_expenses
\* (ExpenseRecord) with validate=True: the exception raised, or the rows of
\* the frame returned.
Normalize(model_class, df, state_fips, county_fips, page_updated_at) ==
    IF IsEmpty(df) THEN [exc |-> NoError, rows |-> <<>>, errors |-> <<>>]
    ELSE IF ~InSeq(<<"c", "a", "t", "e", "g", "o", "r", "y">>, RenameColumns(df.columns))
    THEN [exc |-> Exc("KeyError", "id_vars not present in the DataFrame: ['category']", 0),
          rows |-> <<>>, errors |-> <<>>]
    ELSE ValidateFrame(Melt(DataFrame(RenameColumns(df.columns), df.rows),
                            FullFips(state_fips, county_fips),
                            page_updated_at),
                       model_class)

normalize_wages(df, state_fips, county_fips, page_updated_at) ==
    Normalize("WageRecord", df, state_fips, county_fips, page_updated_at)

normalize_expenses(df, state_fips, county_fips, page_updated_at) ==
    Normalize("ExpenseRecord", df, state_fips, county_fips, page_updated_at)

(***************************************************************************)
(* Sample pages of the wage calculator                                     *)
(***************************************************************************)
\* Two family columns under one adult heading; the empty first cell of the
\* second header row becomes "Category".
OneAdultHeads ==
    << <<Th(<<"1", " ", "A", "d", "u", "l", "t">>, 2)>>,
       <<Th(<<>>, 1), Th(<<"0", " ", "C", "h", "i", "l", "d", "r", "e", "n">>, 1), Th(<<"1", " ", "C", "h", "i", "l", "d">>, 1)>> >>

\* Headings that are not family configurations of the calculator.
OddHeads ==
    << <<Th(<<"3", " ", "A", "d", "u", "l", "t", "s">>, 1), Th(<<"2", " ", "A", "d", "u", "l", "t", "s", " ", "(", "1", " ", "W", "o", "r", "k", "i", "n", "g", ")">>, 1)>>,
       <<Th(<<"C", "a", "t", "e", "g", "o", "r", "y">>, 1), Th(<<"0", " ", "C", "h", "i", "l", "d", "r", "e", "n">>, 1), Th(<<"9", " ", "C", "h", "i", "l", "d", "r", "e", "n">>, 1)>> >>

\* The first header cell is spelled in capitals.
CapitalHeads ==
    << <<Th(<<"1", " ", "A", "d", "u", "l", "t">>, 2)>>,
       <<Th(<<"C", "A", "T", "E", "G", "O", "R", "Y">>, 1), Th(<<"0", " ", "C", "h", "i", "l", "d", "r", "e", "n">>, 1), Th(<<"1", " ", "C", "h", "i", "l", "d">>, 1)>> >>

WagesTable ==
    HtmlTable(OneAdultHeads, << <<<<"L", "i", "v", "i", "n", "g", " ", "W", "a", "g", "e">>, <<"$", "2", "0", ".", "0", "0">>, <<"$", "3", "0", ".", "5", "0">>>> >>)

WagesTableOdd ==
    HtmlTable(OddHeads, << <<<<"L", "i", "v", "i", "n", "g", " ", "W", "a", "g", "e">>, <<"$", "2", "0", ".", "0", "0">>, <<"-", "5">>>>,
                           <<<<"B", "o", "g", "u", "s", " ", "W", "a", "g", "e">>, <<"n", "/", "a">>, <<"1">>>> >>)

\* One body row is shorter than the header, one is longer.
WagesTableRagged ==
    HtmlTable(OneAdultHeads, << <<<<"P", "o", "v", "e", "r", "t", "y", " ", "W", "a", "g", "e">>>>,
                                <<<<"M", "i", "n", "i", "m", "u", "m", " ", "W", "a", "g", "e">>, <<"7", ".", "2", "5">>, <<"7", ".", "2", "5">>, <<"7", ".", "2", "5">>>> >>)

ExpensesTable ==
    HtmlTable(OneAdultHeads, << <<<<"F", "o", "o", "d">>, <<"$", "5", ",", "0", "0", "0">>, <<"$", "6", ",", "0", "0", "0">>>> >>)

ExpensesTableOdd ==
    HtmlTable(OneAdultHeads, << <<<<"F", "o", "o", "d">>, <<"$", "5", ",", "0", "0", "0">>, <<"$", "6", ",", "0", "0", "0">>>>,
                                <<<<"R", "e", "q", "u", "i", "r", "e", "d", " ", "a", "n", "n", "u", "a", "l", " ", "i", "n", "c", "o", "m", "e", " ", "a", "f", "t", "e", "r", " ", "t", "a", "x", "e", "s">>, <<"$", "1">>, <<"$", "2">>>> >>)

ExpensesTableCapital ==
    HtmlTable(CapitalHeads, << <<<<"H", "o", "u", "s", "i", "n", "g">>, <<"$", "9", ",", "0", "0", "0">>, <<"$", "9", ",", "5", "0", "0">>>> >>)

\* A table with a single <thead>, and one whose second header row is empty.
OneTheadTable == HtmlTable(<< <<Th(<<"1", " ", "A", "d", "u", "l", "t">>, 2)>> >>, <<>>)

NoChildCountsTable == HtmlTable(<< <<Th(<<"1", " ", "A", "d", "u", "l", "t">>, 2)>>, <<>> >>, <<>>)

\* A table without a <tbody>.
EmptyBodyTable == HtmlTable(OneAdultHeads, <<>>)

SamplePages ==
    { <<>>,
      <<WagesTable>>,
      <<WagesTable, ExpensesTable>>,
      <<WagesTable, ExpensesTable, WagesTableOdd>>,
      <<WagesTableOdd, ExpensesTable>>,
      <<WagesTableRagged, ExpensesTable>>,
      <<WagesTable, ExpensesTableOdd>>,
      <<WagesTable, ExpensesTableCapital>>,
      <<EmptyBodyTable, ExpensesTable>>,
      <<OneTheadTable, ExpensesTable>>,
      <<WagesTable, NoChildCountsTable>> }

StateFipsSamples == {<<"0", "1">>, <<"1">>}

CountyFipsSamples == {<<"0", "0", "1">>, <<"3">>, <<"1", "2", "3", "4">>}

\* What HttpClient.get does for the extractor: it returns the page, or raises.
FetchOk == Exc("none", "", 0)

FetchErrors ==
    { Exc("HTTPError", "Client Error: Not Found", 404),
      Exc("HTTPError", "Server Error", 503),
      Exc("Timeout", "Read timed out", 0),
      Exc("ConnectionError", "Connection refused", 0),
      Exc("RequestException", "Invalid URL", 0),
      Exc("TypeError", "string indices must be integers", 0) }

(***************************************************************************)
(* Extraction operations (src/extract/extract_ops.py)                      *)
(***************************************************************************)
\* Optional[list[dict]]
NoneData == [none |-> TRUE, rows |-> <<>>]

SomeData(rows) == [none |-> FALSE, rows |-> rows]

\* Optional[datetime]: a day number, or NullInt for None.
PageDates == {NullInt, 1, 2}

\* str(e), and Optional[str]: None.
StrOf(e) == [msg |-> e.msg, n |-> e.n]

NoneStr == [msg |-> "<None>", n |-> 0]

ScrapeResult(fips_code, success, wages_data, expenses_data, page_updated_at, error) ==
    [fips_code |-> fips_code, success |-> success, wages_data |-> wages_data,
     expenses_data |-> expenses_data, page_updated_at |-> page_updated_at,
     error |-> error]

\* The dict get_county_data returns: its keys and their values.
CountyData(keys, wages_data, expenses_data, page_updated_at) ==
    [keys |-> keys, wages_data |-> wages_data, expenses_data |-> expenses_data,
     page_updated_at |-> page_updated_at]

NoCountyData == CountyData({}, <<>>, <<>>, NullInt)

\* WageExtractor.get_county_data: the exception it raises, or the dict.
GetCountyData(state_fips, county_fips, fetch, page) ==
    IF fetch # FetchOk THEN [exc |-> fetch, data |-> NoCountyData]
    ELSE LET parsed == ParsePage(page, ZFill(county_fips, 3))
         IN  IF parsed.exc # NoError THEN [exc |-> parsed.exc, data |-> NoCountyData]
             ELSE [exc |-> NoError,
                   data |-> CountyData({"wages_data", "expenses_data"},
                                       parsed.wages_data, parsed.expenses_data, NullInt)]

\* An extractor whose get_county_data also puts page_updated_at in the dict,
\* as ScrapeResult and process_state expect of it.
WithPageUpdatedAt(outcome, day) ==
    IF outcome.exc # NoError THEN outcome
    ELSE [outcome EXCEPT !.data = CountyData(outcome.data.keys \cup {"page_updated_at"},
                                             outcome.data.wages_data,
                                             outcome.data.expenses_data, day)]

\* data[key] of scrape_county_with_extractor, left to right.
MissingKey(data) ==
    IF "wages_data" \notin data.keys THEN "'wages_data'"
    ELSE IF "expenses_data" \notin data.keys THEN "'expenses_data'"
    ELSE IF "page_updated_at" \notin data.keys THEN "'page_updated_at'"
    ELSE ""

\* An except clause that names only the errors of the requests library.
CatchesRequestErrorsOnly(e) ==
    e.type \in {"HTTPError", "Timeout", "ConnectionError", "RequestException"}

\* except Exception as e
ScrapeCatches(e) == TRUE

\* scrape_county_with_extractor: what it returns and what it lets escape.
ScrapeCountyWithExtractorResult(state_fips, county_fips, outcome) ==
    LET full_fips == state_fips \o county_fips
        e == IF outcome.exc # NoError THEN outcome.exc
             ELSE IF MissingKey(outcome.data) # ""
                  THEN Exc("KeyError", MissingKey(outcome.data), 0)
                  ELSE NoError
        failed == ScrapeResult(full_fips, FALSE, NoneData, NoneData, NullInt, StrOf(e))
    IN  IF e = NoError
        THEN [raised |-> NoError,
              result |-> ScrapeResult(full_fips, TRUE, SomeData(outcome.data.wages_data),
                                      SomeData(outcome.data.expenses_data),
                                      outcome.data.page_updated_at, NoneStr)]
        ELSE IF ScrapeCatches(e) THEN [raised |-> NoError, result |-> failed]
        ELSE [raised |-> e, result |-> failed]

\* No call yet.
NoScrape ==
    [fn |-> "none", state_fips |-> <<>>, county_fips |-> <<>>,
     fetch |-> FetchOk, page |-> <<>>,
     outcome |-> [exc |-> NoError, data |-> NoCountyData],
     raised |-> NoError,
     returned |-> ScrapeResult(<<>>, FALSE, NoneData, NoneData, NullInt, NoneStr)]

ExtractIdle == scrape = NoScrape

\* The call fn(state_fips, county_fips) on an extractor whose client ends as
\* fetch, returning page, and whose get_county_data ends as outcome.
ScrapeCall(fn, state_fips, county_fips, fetch, page, outcome) ==
    LET r == ScrapeCountyWithExtractorResult(state_fips, county_fips, outcome)
    IN  scrape' = [fn |-> fn, state_fips |-> state_fips, county_fips |-> county_fips,
                   fetch |-> fetch, page |-> page,
                   outcome |-> outcome, raised |-> r.raised, returned |-> r.result]

\* scrape_county_with_extractor(extractor, state_fips, county_fips): the
\* extractor is a WageExtractor, or one that supplies page_updated_at.
ScrapeCountyWithExtractor ==
    \E state_fips \in StateFipsSamples, county_fips \in CountyFipsSamples,
       fetch \in {FetchOk} \cup FetchErrors, page \in SamplePages :
        LET outcome == GetCountyData(state_fips, county_fips, fetch, page)
        IN  \/ ScrapeCall("scrape_county_with_extractor", state_fips, county_fips,
                         fetch, page, outcome)
            \/ \E day \in PageDates :
                   ScrapeCall("scrape_county_with_extractor", state_fips, county_fips,
                              fetch, page, WithPageUpdatedAt(outcome, day))

\* scrape_county(state_fips, county_fips): the call above inside a session of
\* its own WageExtractor.
ScrapeCounty ==
    \E state_fips \in StateFipsSamples, county_fips \in CountyFipsSamples,
       fetch \in {FetchOk} \cup FetchErrors, page \in SamplePages :
        ScrapeCall("scrape_county", state_fips, county_fips, fetch, page,
                   GetCountyData(state_fips, county_fips, fetch, page))

(***************************************************************************)
(* normalize_wages / normalize_expenses as calls                           *)
(***************************************************************************)
NoNormalize ==
    [fn |-> "none", model_class |-> "none", df |-> EmptyDataFrame,
     state_fips |-> <<>>, county_fips |-> <<>>, page_updated_at |-> NullInt,
     long_df |-> <<>>, out |-> [exc |-> NoError, rows |-> <<>>, errors |-> <<>>]]

NormalizeIdle == norm = NoNormalize

\* The frame a scraped table becomes before it is normalized.
SampleFrames ==
    {table_to_dataframe(ExtractTable(t, <<"3">>).rows) :
        t \in {WagesTable, WagesTableOdd, WagesTableRagged, ExpensesTable,
               ExpensesTableOdd, ExpensesTableCapital, EmptyBodyTable}}

\* The melted and cleaned frame the validation runs on.
LongFrame(df, state_fips, county_fips, page_updated_at) ==
    IF IsEmpty(df) \/ ~InSeq(<<"c", "a", "t", "e", "g", "o", "r", "y">>, RenameColumns(df.columns)) THEN <<>>
    ELSE Melt(DataFrame(RenameColumns(df.columns), df.rows),
              ZFill(state_fips, 2) \o ZFill(county_fips, 3), page_updated_at)

\* One call fn(df, state_fips, county_fips, page_updated_at).
NormalizeCall(fn, model_class) ==
    /\ norm.fn = "none"
    /\ \E df \in SampleFrames, state_fips \in StateFipsSamples,
          county_fips \in CountyFipsSamples, page_updated_at \in PageDates \ {NullInt} :
          norm' = [fn |-> fn, model_class |-> model_class, df |-> df,
                   state_fips |-> state_fips, county_fips |-> county_fips,
                   page_updated_at |-> page_updated_at,
                   long_df |-> LongFrame(df, state_fips, county_fips, page_updated_at),
                   out |-> Normalize(model_class, df, state_fips, county_fips,
                                     page_updated_at)]

NormalizeWages == NormalizeCall("normalize_wages", "WageRecord")

NormalizeExpenses == NormalizeCall("normalize_expenses", "ExpenseRecord")

(***************************************************************************)
(* Load layer (src/load/run_tracker.py, staging.py, bulk_ops.py, db.py)    *)
(***************************************************************************)
\* The columns end_run sets (the SET clause of its UPDATE); run_end_timestamp
\* is datetime.now(), a value that is not NULL.
RunRow(run_status, counties, wl, wr, el, er, error) ==
    [run_end_timestamp |-> "now", run_status |-> run_status,
     counties_processed |-> counties,
     wages_loaded |-> wl, wages_rejected |-> wr,
     expenses_loaded |-> el, expenses_rejected |-> er, error_message |-> error]

\* start_run: INSERT ... VALUES (..., 'RUNNING', state_fips, ...); the other
\* columns are left to the defaults of the table.
StartedRow(state_fips) ==
    [state_fips |-> state_fips, run_end_timestamp |-> "NULL", run_status |-> "RUNNING",
     counties_processed |-> 0, wages_loaded |-> 0, wages_rejected |-> 0,
     expenses_loaded |-> 0, expenses_rejected |-> 0, error_message |-> NoneStr]

\* INSERT INTO etl_runs ... RETURNING run_id: run_id is the serial key, the
\* position of the row in the table.
InsertRun(table, state_fips) == Append(table, StartedRow(state_fips))

\* An UPDATE that has no WHERE clause: every row gets the columns.
UpdateEveryRun(table, id, row) ==
    [i \in 1..Len(table) |->
        [f \in DOMAIN table[i] |-> IF f \in DOMAIN row THEN row[f] ELSE table[i][f]]]

\* UPDATE etl_runs SET ... WHERE run_id = id: the row whose key is id gets the
\* columns of the SET clause and keeps its other columns; no row has the key
\* when id is not in the table.
UpdateRun(table, id, row) ==
    [i \in 1..Len(table) |->
        IF i = id
        THEN [f \in DOMAIN table[i] |-> IF f \in DOMAIN row THEN row[f] ELSE table[i][f]]
        ELSE table[i]]

TerminalStatuses == {"SUCCESS", "PARTIAL", "FAILED"}

\* A statement fails (the connection is rolled back), or the transaction
\* commits.
DbDown == Exc("OperationalError", "could not connect to server", 0)

TooLong == Exc("DataError", "value too long for type character varying(3)", 0)

\* COPY into tmp_wages / tmp_expenses, whose county_fips is VARCHAR(3).
FitsTempTable(rows) == \A i \in 1..Len(rows) : Len(rows[i].county_fips) <= 3

\* How bulk_upsert_wages / bulk_upsert_expenses can end on a frame: NoError
\* for a return.  An empty frame returns 0 without a connection.
BulkUpsertOutcomes(rows) ==
    IF rows = <<>> THEN {NoError}
    ELSE IF ~FitsTempTable(rows) THEN {TooLong, DbDown}
    ELSE {NoError, DbDown}

\* The staging row INSERT proposes for a frame row; the statement names no
\* load_timestamp, so a row it inserts gets the default of the column.
StagingRow(r, id, ts) ==
    [run_id |-> id, county_fips |-> r.county_fips, adults |-> r.adults,
     working_adults |-> r.working_adults, children |-> r.children,
     label |-> r.label, amount |-> r.amount,
     load_timestamp |-> [by |-> "default", at |-> ts]]

SameKey(a, b) ==
    /\ a.county_fips = b.county_fips
    /\ a.adults = b.adults
    /\ a.working_adults = b.working_adults
    /\ a.children = b.children
    /\ a.label = b.label

\* A statement that empties the table before it inserts.
TruncateInsert(table, n) == {n}

\* One proposed row of INSERT ... ON CONFLICT (natural key) DO UPDATE SET
\* run_id = EXCLUDED.run_id, <value> = EXCLUDED.<value>,
\* load_timestamp = CURRENT_TIMESTAMP.
UpsertRow(table, n) ==
    IF \E t \in table : SameKey(t, n)
    THEN {IF SameKey(t, n)
          THEN [t EXCEPT !.run_id = n.run_id, !.amount = n.amount,
                         !.load_timestamp = [by |-> "update", at |-> n.load_timestamp.at]]
          ELSE t : t \in table}
    ELSE table \cup {n}

\* INSERT ... SELECT ... FROM the temp table ON CONFLICT DO UPDATE, for a frame
\* whose rows have different natural keys.
RECURSIVE Upsert(_, _, _, _)
Upsert(table, rows, id, ts) ==
    IF rows = <<>> THEN table
    ELSE Upsert(UpsertRow(table, StagingRow(Head(rows), id, ts)), Tail(rows), id, ts)

\* pd.concat(frames, ignore_index=True)
RECURSIVE Concat(_)
Concat(frames) == IF frames = <<>> THEN <<>> ELSE Head(frames) \o Concat(Tail(frames))

\* The rows load_rejects copies into a reject table.
RejectRows(records, id) ==
    [i \in 1..Len(records) |->
        [run_id |-> id, raw_data |-> records[i].raw_data,
         rejection_reason |-> records[i].rejection_reason]]

\* A decision that looks at the loaded records only.
StatusIgnoringRejects(total_loaded, total_rejected) ==
    IF total_loaded = 0 THEN "FAILED" ELSE "SUCCESS"

\* The status process_state chooses.
StatusOf(total_loaded, total_rejected) ==
    IF total_loaded = 0 THEN "FAILED"
    ELSE IF total_rejected > 0 THEN "PARTIAL"
    ELSE "SUCCESS"

(***************************************************************************)
(* bulk_upsert_wages, bulk_upsert_expenses and load_rejects called on      *)
(* their own (src/load/staging.py, bulk_ops.py, db.py)                     *)
(***************************************************************************)
\* A reject dict of process_state.
Reject(raw_data, reason) == [raw_data |-> raw_data, rejection_reason |-> reason]

\* The four tables, empty.
NoStaging ==
    [stg_wages |-> {}, stg_expenses |-> {},
     stg_wages_rejects |-> <<>>, stg_expenses_rejects |-> <<>>]

\* A statement fails for a reason outside the data.
DbError == Exc("OperationalError", "server closed the connection unexpectedly", 0)

\* INSERT ... ON CONFLICT DO UPDATE proposes two rows with one natural key.
CardinalityViolation ==
    Exc("CardinalityViolation",
        "ON CONFLICT DO UPDATE command cannot affect row a second time", 0)

MissingColumns == Exc("ValueError", "Missing required columns", 0)

InvalidRejectTable == Exc("ValueError", "Invalid reject table", 0)

\* The steps of a call at which the database can fail.
LoadFaults == {"none", "connect", "create", "copy", "insert", "commit"}

FaultAt(fault, step) ==
    IF fault = step THEN (IF step = "connect" THEN DbDown ELSE DbError) ELSE NoError

\* The exception of the first statement that fails.
RECURSIVE FirstError(_)
FirstError(excs) ==
    IF excs = <<>> THEN NoError
    ELSE IF Head(excs) # NoError THEN Head(excs)
    ELSE FirstError(Tail(excs))

NoConnection ==
    [opened |-> FALSE, commit_calls |-> 0, committed |-> FALSE, rollbacks |-> 0,
     closes |-> 0, exc |-> NoError]

\* A scope that commits whatever the body did.
GetConnectionCommitAlways(connect_exc, body_exc, commit_exc) ==
    IF connect_exc # NoError THEN [NoConnection EXCEPT !.exc = connect_exc]
    ELSE [opened |-> TRUE, commit_calls |-> 1, committed |-> commit_exc = NoError,
          rollbacks |-> 0, closes |-> 1,
          exc |-> IF body_exc # NoError THEN body_exc ELSE commit_exc]

\* get_connection: psycopg2.connect before the try; yield, then commit; on an
\* exception of the body or of commit, rollback and re-raise; close in every
\* case.
GetConnection(connect_exc, body_exc, commit_exc) ==
    IF connect_exc # NoError THEN [NoConnection EXCEPT !.exc = connect_exc]
    ELSE IF body_exc # NoError
    THEN [opened |-> TRUE, commit_calls |-> 0, committed |-> FALSE, rollbacks |-> 1,
          closes |-> 1, exc |-> body_exc]
    ELSE IF commit_exc # NoError
    THEN [opened |-> TRUE, commit_calls |-> 1, committed |-> FALSE, rollbacks |-> 1,
          closes |-> 1, exc |-> commit_exc]
    ELSE [opened |-> TRUE, commit_calls |-> 1, committed |-> TRUE, rollbacks |-> 0,
          closes |-> 1, exc |-> NoError]

HasDuplicateKeys(rows) ==
    \E i \in 1..Len(rows), j \in 1..Len(rows) : i < j /\ SameKey(rows[i], rows[j])

\* bulk_upsert_wages(df, run_id) / bulk_upsert_expenses(df, run_id) on a
\* staging table: what the call raises or returns, what its connection did,
\* and the table it leaves.
BulkUpsert(table, df, id, ts, fault) ==
    IF df.rows = <<>>
    THEN [exc |-> NoError, result |-> 0, conn |-> NoConnection, table |-> table]
    ELSE IF df.missing
    THEN [exc |-> MissingColumns, result |-> NullInt, conn |-> NoConnection,
          table |-> table]
    ELSE LET body == FirstError(<<FaultAt(fault, "create"),
                                  IF ~FitsTempTable(df.rows) THEN TooLong
                                  ELSE FaultAt(fault, "copy"),
                                  IF HasDuplicateKeys(df.rows) THEN CardinalityViolation
                                  ELSE FaultAt(fault, "insert")>>)
             conn == GetConnection(FaultAt(fault, "connect"), body,
                                   FaultAt(fault, "commit"))
         IN  [exc |-> conn.exc,
              result |-> IF conn.exc = NoError THEN Len(df.rows) ELSE NullInt,
              conn |-> conn,
              table |-> IF conn.committed THEN Upsert(table, df.rows, id, ts) ELSE table]

ALLOWED_REJECT_TABLES == {"stg_wages_rejects", "stg_expenses_rejects"}

\* load_rejects(records, run_id, table): copy_into is the table the COPY
\* statement names, "none" when no COPY is executed.
LoadRejects(tables, records, id, table, fault) ==
    IF records = <<>>
    THEN [exc |-> NoError, result |-> 0, conn |-> NoConnection, copy_into |-> "none",
          tables |-> tables]
    ELSE IF table \notin ALLOWED_REJECT_TABLES
    THEN [exc |-> InvalidRejectTable, result |-> NullInt, conn |-> NoConnection,
          copy_into |-> "none", tables |-> tables]
    ELSE LET conn == GetConnection(FaultAt(fault, "connect"), FaultAt(fault, "copy"),
                                   FaultAt(fault, "commit"))
         IN  [exc |-> conn.exc,
              result |-> IF conn.exc = NoError THEN Len(records) ELSE NullInt,
              conn |-> conn,
              copy_into |-> IF conn.opened THEN table ELSE "none",
              tables |-> IF conn.committed
                         THEN [tables EXCEPT ![table] = @ \o RejectRows(records, id)]
                         ELSE tables]

\* A frame row: county_fips as the caller holds it, one household, a category
\* and an amount.
LoadRow(county_fips, label, amount) ==
    [county_fips |-> county_fips, adults |-> 1, working_adults |-> 1, children |-> 0,
     label |-> label, amount |-> amount]

Frame(rows) == [rows |-> rows, missing |-> FALSE]

\* The frames the bulk upserts are called with: empty, lacking a column,
\* three-character county codes as in the unit tests (one key, two keys, one
\* key twice), and validated records, whose county_fips has five digits.
WageFrames ==
    {Frame(<<>>),
     [rows |-> <<LoadRow(<<"0", "0", "1">>, "living", 10)>>, missing |-> TRUE],
     Frame(<<LoadRow(<<"0", "0", "1">>, "living", 10)>>),
     Frame(<<LoadRow(<<"0", "0", "1">>, "living", 20)>>),
     Frame(<<LoadRow(<<"0", "0", "1">>, "living", 10),
             LoadRow(<<"0", "0", "1">>, "poverty", 10)>>),
     Frame(<<LoadRow(<<"0", "0", "1">>, "living", 10),
             LoadRow(<<"0", "0", "1">>, "living", 20)>>),
     Frame(<<LoadRow(<<"0", "1", "0", "0", "1">>, "living", 10)>>),
     Frame(<<LoadRow(<<"0", "1", "0", "0", "1">>, "living", 20)>>)}

ExpenseFrames ==
    {Frame(<<>>),
     Frame(<<LoadRow(<<"0", "0", "1">>, "food", 10)>>),
     Frame(<<LoadRow(<<"0", "0", "1">>, "food", 20),
             LoadRow(<<"0", "0", "1">>, "housing", 10)>>),
     Frame(<<LoadRow(<<"0", "1", "0", "0", "1">>, "food", 10)>>)}

RejectLists == {<<>>, <<Reject("row", "reason")>>}

\* The table arguments of load_rejects: the two reject tables, a staging
\* table, a string that is no table name.
RejectTableArgs ==
    {"stg_wages_rejects", "stg_expenses_rejects", "stg_wages", "x; DROP TABLE etl_runs"}

RunIdArgs == {1, 2}

NoLoadCall ==
    [fn |-> "none", df |-> Frame(<<>>), records |-> <<>>, table |-> "none", run_id |-> 0,
     fault |-> "none", exc |-> NoError, result |-> 0, conn |-> NoConnection,
     copy_into |-> "none", before |-> NoStaging]

LoadIdle == load_call = NoLoadCall /\ load_clock = 0

\* bulk_upsert_wages(df, run_id)
LoadBulkUpsertWages ==
    /\ load_clock < MaxLoadCalls
    /\ \E df \in WageFrames, id \in RunIdArgs, fault \in LoadFaults :
       \E r \in {BulkUpsert(staging.stg_wages, df, id, load_clock + 1, fault)} :
          /\ staging' = [staging EXCEPT !.stg_wages = r.table]
          /\ load_call' =
                [fn |-> "bulk_upsert_wages", df |-> df, records |-> <<>>,
                 table |-> "stg_wages", run_id |-> id, fault |-> fault, exc |-> r.exc,
                 result |-> r.result, conn |-> r.conn, copy_into |-> "none",
                 before |-> staging]
    /\ load_clock' = load_clock + 1

\* bulk_upsert_expenses(df, run_id)
LoadBulkUpsertExpenses ==
    /\ load_clock < MaxLoadCalls
    /\ \E df \in ExpenseFrames, id \in RunIdArgs, fault \in LoadFaults :
       \E r \in {BulkUpsert(staging.stg_expenses, df, id, load_clock + 1, fault)} :
          /\ staging' = [staging EXCEPT !.stg_expenses = r.table]
          /\ load_call' =
                [fn |-> "bulk_upsert_expenses", df |-> df, records |-> <<>>,
                 table |-> "stg_expenses", run_id |-> id, fault |-> fault, exc |-> r.exc,
                 result |-> r.result, conn |-> r.conn, copy_into |-> "none",
                 before |-> staging]
    /\ load_clock' = load_clock + 1

\* load_rejects(records, run_id, table)
LoadRejectsCall ==
    /\ load_clock < MaxLoadCalls
    /\ \E records \in RejectLists, id \in RunIdArgs, table \in RejectTableArgs,
          fault \in LoadFaults \ {"create", "insert"} :
       \E r \in {LoadRejects(staging, records, id, table, fault)} :
          /\ staging' = r.tables
          /\ load_call' =
                [fn |-> "load_rejects", df |-> Frame(<<>>), records |-> records,
                 table |-> table, run_id |-> id, fault |-> fault, exc |-> r.exc,
                 result |-> r.result, conn |-> r.conn, copy_into |-> r.copy_into,
                 before |-> staging]
    /\ load_clock' = load_clock + 1

(***************************************************************************)
(* The status decision of process_state (src/main.py:113-128), applied to  *)
(* every combination of counts up to MaxCount                              *)
(***************************************************************************)
NoDecision ==
    [made |-> FALSE, wages_loaded |-> 0, wages_rejected |-> 0,
     expenses_loaded |-> 0, expenses_rejected |-> 0,
     end_run |-> RunRow("RUNNING", 0, 0, 0, 0, 0, NoneStr)]

StatusIdle == decision = NoDecision

\* total_loaded = wages_loaded + expenses_loaded
\* total_rejected = wages_rejected + expenses_rejected
\* if / elif / else on the totals, then
\* end_run(run_id, status, counties_processed, wages_loaded, wages_rejected,
\*         expenses_loaded, expenses_rejected)
DetermineStatus ==
    /\ ~decision.made
    /\ \E wl \in 0..MaxCount, wr \in 0..MaxCount, el \in 0..MaxCount, er \in 0..MaxCount :
          decision' =
              [made |-> TRUE, wages_loaded |-> wl, wages_rejected |-> wr,
               expenses_loaded |-> el, expenses_rejected |-> er,
               end_run |-> RunRow(StatusOf(wl + el, wr + er), 1, wl, wr, el, er, NoneStr)]

(***************************************************************************)
(* start_run and end_run on table etl_runs (src/load/run_tracker.py)       *)
(***************************************************************************)
\* The argument lists end_run is called with: the three statuses of the normal
\* path of process_state and the call of its handler.
EndRunArgs ==
    {RunRow("SUCCESS", 2, 3, 0, 1, 0, NoneStr),
     RunRow("PARTIAL", 2, 3, 1, 1, 0, NoneStr),
     RunRow("FAILED", 2, 0, 1, 0, 0, NoneStr),
     RunRow("FAILED", 1, 0, 0, 0, 0, StrOf(DbDown))}

\* The run_id arguments: the keys the table can hold and one it never holds.
RunIds == 1..(MaxRuns + 1)

NoCall ==
    [fn |-> "none", state_fips |-> <<>>, run_id |-> 0,
     args |-> RunRow("RUNNING", 0, 0, 0, 0, 0, NoneStr), db |-> NoError, before |-> <<>>]

TrackerIdle == tracker = NoCall

\* start_run(state_fips): the INSERT commits and the key is returned, or the
\* statement fails and get_cursor rolls back.
TrackerStartRun ==
    /\ Len(etl_runs) < MaxRuns
    /\ \E state_fips \in StateFipsSamples, db \in {NoError, DbDown} :
          /\ etl_runs' = IF db = NoError THEN InsertRun(etl_runs, state_fips) ELSE etl_runs
          /\ tracker' =
                [fn |-> "start_run", state_fips |-> state_fips,
                 run_id |-> IF db = NoError THEN Len(etl_runs) + 1 ELSE 0,
                 args |-> NoCall.args, db |-> db, before |-> etl_runs]

\* end_run(run_id, status, counties, ..., error): the UPDATE commits, or the
\* statement fails and get_cursor rolls back.
TrackerEndRun ==
    \E id \in RunIds, row \in EndRunArgs, db \in {NoError, DbDown} :
        /\ etl_runs' = IF db = NoError THEN UpdateRun(etl_runs, id, row) ELSE etl_runs
        /\ tracker' =
              [fn |-> "end_run", state_fips |-> <<>>, run_id |-> id,
               args |-> row, db |-> db, before |-> etl_runs]

(***************************************************************************)
(* process_state (src/main.py)                                             *)
(***************************************************************************)
CountyCodeLists == {<<>>, <<<<"0", "0", "1">>>>, <<<<"0", "0", "1">>, <<"0", "0", "3">>>>}

\* result.fips_code[-3:]
Last3(s) == IF Len(s) <= 3 THEN s ELSE SubSeq(s, Len(s) - 2, Len(s))

\* The accumulators after one turn of the loop; slept tells whether the turn
\* reached time.sleep (a `continue` skips it).  The result is remembered with
\* its two payloads.
Accumulate(result, outcome, w, e, wr, er, slept) ==
    /\ results' = Append(results, [fips_code |-> result.fips_code, outcome |-> outcome,
                                    slept |-> slept,
                                    wages_data |-> result.wages_data,
                                    expenses_data |-> result.expenses_data])
    /\ all_wages' = w
    /\ all_expenses' = e
    /\ wage_rejects' = wr
    /\ expense_rejects' = er
    /\ delays' = IF slept THEN delays + 1 ELSE delays

\* Lines 86-98: the two normalize calls and the except clause around them.
\* An exception of normalize_expenses leaves the wages of the county in
\* all_wages and rejects its wages_data.
Transform(result, wages_df, expenses_df) ==
    \E page_updated_at \in {IF result.page_updated_at # NullInt
                            THEN result.page_updated_at ELSE now} :
    \E nw \in {normalize_wages(wages_df, run_state_fips, Last3(result.fips_code),
                               page_updated_at)} :
        IF nw.exc # NoError
        THEN Accumulate(result, "transform_error", all_wages, all_expenses,
                        Append(wage_rejects,
                               Reject(result.wages_data.rows, <<nw.exc.msg>>)),
                        expense_rejects, TRUE)
        ELSE \E ne \in {normalize_expenses(expenses_df, run_state_fips,
                                           Last3(result.fips_code), page_updated_at)} :
                IF ne.exc # NoError
                THEN Accumulate(result, "transform_error",
                                Append(all_wages, nw.rows), all_expenses,
                                Append(wage_rejects,
                                       Reject(result.wages_data.rows, <<ne.exc.msg>>)),
                                expense_rejects, TRUE)
                ELSE Accumulate(result, "ok", Append(all_wages, nw.rows),
                                Append(all_expenses, ne.rows),
                                wage_rejects, expense_rejects, TRUE)

\* Lines 69-100: the body of the loop over scrape_state_counties for one
\* result.
CountyStep(result) ==
    IF ~result.success
    THEN Accumulate(result, "scrape_failed", all_wages, all_expenses, wage_rejects,
                    expense_rejects, TRUE)
    ELSE \E wages_df \in {table_to_dataframe(result.wages_data.rows)},
            expenses_df \in {table_to_dataframe(result.expenses_data.rows)} :
         \E wide_w \in {validate_wide_format_input(wages_df)},
            wide_e \in {validate_wide_format_input(expenses_df)} :
            IF ~wide_w.valid
            THEN Accumulate(result, "wages_invalid", all_wages, all_expenses,
                            Append(wage_rejects,
                                   Reject(result.wages_data.rows, wide_w.errors)),
                            expense_rejects, FALSE)
            ELSE IF ~wide_e.valid
            THEN Accumulate(result, "expenses_invalid", all_wages, all_expenses,
                            wage_rejects,
                            Append(expense_rejects,
                                   Reject(result.expenses_data.rows, wide_e.errors)),
                            FALSE)
            ELSE Transform(result, wages_df, expenses_df)

\* Before process_state is called.
PipelineIdle ==
    /\ ppc = "idle"
    /\ run_state_fips = <<>>
    /\ county_codes = <<>>
    /\ next_county = 1
    /\ run_id = 0
    /\ etl_runs = <<>>
    /\ all_wages = <<>>
    /\ all_expenses = <<>>
    /\ wage_rejects = <<>>
    /\ expense_rejects = <<>>
    /\ counties_processed = 0
    /\ loaded = [wages |-> 0, expenses |-> 0]
    /\ rejected = [wages |-> 0, expenses |-> 0]
    /\ pending = NoError
    /\ staging = NoStaging
    /\ upsert_calls = <<>>
    /\ end_run_calls = <<>>
    /\ delays = 0
    /\ results = <<>>

\* process_state(target_state, settings) for a known state: the county codes
\* are those of the census lookup.
PipelineStart ==
    /\ ppc = "start_run"
    /\ run_state_fips \in StateFipsSamples
    /\ county_codes \in CountyCodeLists
    /\ next_county = 1
    /\ run_id = 0
    /\ etl_runs = <<>>
    /\ all_wages = <<>>
    /\ all_expenses = <<>>
    /\ wage_rejects = <<>>
    /\ expense_rejects = <<>>
    /\ counties_processed = 0
    /\ loaded = [wages |-> 0, expenses |-> 0]
    /\ rejected = [wages |-> 0, expenses |-> 0]
    /\ pending = NoError
    /\ staging = NoStaging
    /\ upsert_calls = <<>>
    /\ end_run_calls = <<>>
    /\ delays = 0
    /\ results = <<>>

\* A loop that is left after its first turn.
LeaveLoop(next) ==
    IF next = 1 /\ next <= Len(county_codes) THEN "scrape" ELSE "bulk_upsert_wages"

\* Where the loop over the counties goes next.
AfterCounty(next) == IF next > Len(county_codes) THEN "bulk_upsert_wages" ELSE "scrape"

\* run_id = start_run(run_state_fips), before the try.
StartRun ==
    /\ ppc = "start_run"
    /\ \E db \in {NoError, DbDown} :
          IF db = NoError
          THEN /\ etl_runs' = InsertRun(etl_runs, run_state_fips)
               /\ run_id' = Len(etl_runs) + 1
               /\ ppc' = "open_extractor"
               /\ pending' = pending
          ELSE /\ ppc' = "raised"
               /\ pending' = db
               /\ UNCHANGED <<etl_runs, run_id>>
    /\ UNCHANGED <<run_state_fips, county_codes, next_county, all_wages, all_expenses,
                   wage_rejects, expense_rejects, counties_processed, loaded,
                   rejected, staging, upsert_calls, end_run_calls, delays, results>>

\* The cache directory WageExtractor() finds: empty, or holding one file, which
\* store wrote or which is not of store's making.
ExtractorCacheDirs ==
    {[k \in CacheKeys |-> IF k = "counties/01001" THEN f ELSE Absent] :
        f \in {Absent, StoredFile(0, <<104, 105>>), File("list", Missing, Missing),
               File("bad_json", Missing, Missing)}}

\* WageExtractor.__init__ with use_cache=True: cache.clear_expired() on the
\* directory; exc is the exception that leaves the constructor.
WageExtractorInit(dir) ==
    ClearLoop(dir, IF dir["counties/01001"] = Absent THEN <<>> ELSE <<"counties/01001">>, 0)

\* The first next() of scrape_state_counties(state_fips, county_codes):
\* `with WageExtractor() as extractor`, inside the try of process_state.
OpenExtractor ==
    /\ ppc = "open_extractor"
    /\ \E dir \in ExtractorCacheDirs :
          IF WageExtractorInit(dir).exc = "none"
          THEN /\ ppc' = AfterCounty(1)
               /\ pending' = pending
          ELSE /\ ppc' = "except"
               /\ pending' = Exc(WageExtractorInit(dir).exc, "", 0)
    /\ UNCHANGED <<run_state_fips, county_codes, next_county, run_id, etl_runs, all_wages,
                   all_expenses, wage_rejects, expense_rejects, counties_processed,
                   loaded, rejected, staging, upsert_calls, end_run_calls, delays,
                   results>>

\* What extractor.get_county_data hands to scrape_county_with_extractor for a
\* county: the dict of WageExtractor._parse_page, which has no
\* page_updated_at ("absent"), or a dict that carries the key line 45 reads
\* ("present"), without which no result has success=True.
ExtractorOutcome(got, stamp, day) ==
    IF stamp = "absent" THEN got ELSE WithPageUpdatedAt(got, day)

\* One turn of the loop: scrape_state_counties yields the next result and the
\* body transforms it.
ProcessCounty ==
    /\ ppc = "scrape"
    /\ \E fetch \in {FetchOk} \cup FetchErrors, page \in SamplePages,
          stamp \in {"absent", "present"}, day \in PageDates :
       \E got \in {GetCountyData(run_state_fips, county_codes[next_county],
                                 fetch, page)} :
       \E scraped \in {ScrapeCountyWithExtractorResult(
                           run_state_fips, county_codes[next_county],
                           ExtractorOutcome(got, stamp, day))} :
          CountyStep(scraped.result)
    /\ counties_processed' = counties_processed + 1
    /\ next_county' = next_county + 1
    /\ ppc' = AfterCounty(next_county + 1)
    /\ UNCHANGED <<run_state_fips, county_codes, run_id, etl_runs, loaded, rejected,
                   pending, staging, upsert_calls, end_run_calls>>

\* if all_wages: wages_loaded = bulk_upsert_wages(pd.concat(all_wages), run_id)
BulkUpsertWages ==
    /\ ppc = "bulk_upsert_wages"
    /\ IF all_wages = <<>>
       THEN /\ ppc' = "bulk_upsert_expenses"
            /\ UNCHANGED <<loaded, pending, staging, upsert_calls>>
       ELSE \E db \in BulkUpsertOutcomes(Concat(all_wages)) :
              /\ upsert_calls' = Append(upsert_calls,
                                        [fn |-> "bulk_upsert_wages",
                                         rows |-> Concat(all_wages)])
              /\ IF db = NoError
                 THEN /\ staging' = [staging EXCEPT !.stg_wages =
                                        Upsert(@, Concat(all_wages), run_id, now)]
                      /\ loaded' = [loaded EXCEPT !.wages = Len(Concat(all_wages))]
                      /\ ppc' = "bulk_upsert_expenses"
                      /\ pending' = pending
                 ELSE /\ ppc' = "except"
                      /\ pending' = db
                      /\ UNCHANGED <<staging, loaded>>
    /\ UNCHANGED <<run_state_fips, county_codes, next_county, run_id, etl_runs, all_wages,
                   all_expenses, wage_rejects, expense_rejects, counties_processed,
                   rejected, end_run_calls, delays, results>>

\* if all_expenses: expenses_loaded = bulk_upsert_expenses(...)
BulkUpsertExpenses ==
    /\ ppc = "bulk_upsert_expenses"
    /\ IF all_expenses = <<>>
       THEN /\ ppc' = "load_wage_rejects"
            /\ UNCHANGED <<loaded, pending, staging, upsert_calls>>
       ELSE \E db \in BulkUpsertOutcomes(Concat(all_expenses)) :
              /\ upsert_calls' = Append(upsert_calls,
                                        [fn |-> "bulk_upsert_expenses",
                                         rows |-> Concat(all_expenses)])
              /\ IF db = NoError
                 THEN /\ staging' = [staging EXCEPT !.stg_expenses =
                                        Upsert(@, Concat(all_expenses), run_id, now)]
                      /\ loaded' = [loaded EXCEPT !.expenses = Len(Concat(all_expenses))]
                      /\ ppc' = "load_wage_rejects"
                      /\ pending' = pending
                 ELSE /\ ppc' = "except"
                      /\ pending' = db
                      /\ UNCHANGED <<staging, loaded>>
    /\ UNCHANGED <<run_state_fips, county_codes, next_county, run_id, etl_runs, all_wages,
                   all_expenses, wage_rejects, expense_rejects, counties_processed,
                   rejected, end_run_calls, delays, results>>

\* wages_rejected = load_rejects(wage_rejects, run_id, "stg_wages_rejects")
\*                  if wage_rejects else 0
LoadWageRejects ==
    /\ ppc = "load_wage_rejects"
    /\ IF wage_rejects = <<>>
       THEN /\ ppc' = "load_expense_rejects"
            /\ UNCHANGED <<rejected, pending, staging>>
       ELSE \E db \in {NoError, DbDown} :
              IF db = NoError
              THEN /\ staging' = [staging EXCEPT !.stg_wages_rejects =
                                     @ \o RejectRows(wage_rejects, run_id)]
                   /\ rejected' = [rejected EXCEPT !.wages = Len(wage_rejects)]
                   /\ ppc' = "load_expense_rejects"
                   /\ pending' = pending
              ELSE /\ ppc' = "except"
                   /\ pending' = db
                   /\ UNCHANGED <<staging, rejected>>
    /\ UNCHANGED <<run_state_fips, county_codes, next_county, run_id, etl_runs, all_wages,
                   all_expenses, wage_rejects, expense_rejects, counties_processed,
                   loaded, upsert_calls, end_run_calls, delays, results>>

\* expenses_rejected = load_rejects(expense_rejects, run_id,
\*                     "stg_expenses_rejects") if expense_rejects else 0
LoadExpenseRejects ==
    /\ ppc = "load_expense_rejects"
    /\ IF expense_rejects = <<>>
       THEN /\ ppc' = "end_run"
            /\ UNCHANGED <<rejected, pending, staging>>
       ELSE \E db \in {NoError, DbDown} :
              IF db = NoError
              THEN /\ staging' = [staging EXCEPT !.stg_expenses_rejects =
                                     @ \o RejectRows(expense_rejects, run_id)]
                   /\ rejected' = [rejected EXCEPT !.expenses = Len(expense_rejects)]
                   /\ ppc' = "end_run"
                   /\ pending' = pending
              ELSE /\ ppc' = "except"
                   /\ pending' = db
                   /\ UNCHANGED <<staging, rejected>>
    /\ UNCHANGED <<run_state_fips, county_codes, next_county, run_id, etl_runs, all_wages,
                   all_expenses, wage_rejects, expense_rejects, counties_processed,
                   loaded, upsert_calls, end_run_calls, delays, results>>

\* end_run: the UPDATE of the row run_id, committed or rolled back.
EndRunCall(row, db, next_pc) ==
    /\ end_run_calls' = Append(end_run_calls, [row |-> row, db |-> db])
    /\ IF db = NoError
       THEN /\ etl_runs' = UpdateRun(etl_runs, run_id, row)
            /\ ppc' = next_pc
            /\ pending' = pending
       ELSE /\ etl_runs' = etl_runs
            /\ ppc' = IF ppc = "end_run" THEN "except" ELSE "raised"
            /\ pending' = db

\* Determine status, then end_run(run_id, status, counties_processed,
\* wages_loaded, wages_rejected, expenses_loaded, expenses_rejected).
EndRun ==
    /\ ppc = "end_run"
    /\ \E db \in {NoError, DbDown} :
          EndRunCall(RunRow(StatusOf(loaded.wages + loaded.expenses,
                                     rejected.wages + rejected.expenses),
                            counties_processed, loaded.wages, rejected.wages,
                            loaded.expenses, rejected.expenses, NoneStr),
                     db, "returned")
    /\ UNCHANGED <<run_state_fips, county_codes, next_county, run_id, all_wages,
                   all_expenses, wage_rejects, expense_rejects, counties_processed,
                   loaded, rejected, staging, upsert_calls, delays, results>>

\* except Exception as e:
\*     end_run(run_id, "FAILED", counties_processed, error=str(e)); raise
ExceptHandler ==
    /\ ppc = "except"
    /\ \E db \in {NoError, DbDown} :
          EndRunCall(RunRow("FAILED", counties_processed, 0, 0, 0, 0, StrOf(pending)),
                     db, "raised")
    /\ UNCHANGED <<run_state_fips, county_codes, next_county, run_id, all_wages,
                   all_expenses, wage_rejects, expense_rejects, counties_processed,
                   loaded, rejected, staging, upsert_calls, delays, results>>

(***************************************************************************)
(* The Census extractor (src/extract/census_api.py)                        *)
(***************************************************************************)
\* The longest pipeline.target_states list.
MaxTargetStates == 3

\* str.upper, one character
UpperChar(c) == IF InSeq(c, LowerLetters) THEN UpperLetters[IndexIn(c, LowerLetters)] ELSE c

\* str.upper
Upper(s) == IF s = <<>> THEN <<>> ELSE [i \in 1..Len(s) |-> UpperChar(s[i])]

\* settings.state_config.fips_map: abbreviation -> FIPS code, in the order of
\* the mapping; three of its states.
StateFipsMap ==
    << << <<"A", "L">>, "01" >>, << <<"N", "J">>, "34" >>, << <<"N", "Y">>, "36" >> >>

\* list(self._state_fips_map.values())
DictValues(d) == [i \in 1..Len(d) |-> d[i][2]]

Wildcard == <<"*">>

\* The entries a target_states list is made of: known abbreviations in
\* several cases, an unknown one and the wildcard.
TargetAbbrs ==
    {<<"N", "J">>, <<"n", "j">>, <<"N", "y">>, <<"A", "L">>, <<"Z", "Z">>, Wildcard}

RECURSIVE SeqsUpTo(_, _)
SeqsUpTo(S, n) ==
    IF n = 0 THEN {<<>>}
    ELSE SeqsUpTo(S, n - 1)
            \cup {Append(s, x) : s \in {t \in SeqsUpTo(S, n - 1) : Len(t) = n - 1}, x \in S}

TargetLists == SeqsUpTo(TargetAbbrs, MaxTargetStates)

\* No value: the function raised before it returned.
Unset == <<"<unset>">>

\* raise ValueError(f"Invalid state abbreviation: {abbr}")
InvalidAbbreviation(abbr) ==
    [exc |-> Exc("ValueError", "Invalid state abbreviation", 0), abbr |-> abbr,
     value |-> Unset]

\* The loop of _resolve_state_fips_list over the abbreviations left.
RECURSIVE ResolveLoop(_, _, _)
ResolveLoop(map, rest, resolved) ==
    IF rest = <<>> THEN [exc |-> NoError, abbr |-> <<>>, value |-> resolved]
    ELSE IF ~DictHas(map, Upper(Head(rest))) THEN InvalidAbbreviation(Upper(Head(rest)))
    ELSE ResolveLoop(map, Tail(rest), Append(resolved, DictGet(map, Upper(Head(rest)))))

\* A loop that leaves the unknown abbreviations out.
RECURSIVE ResolveKnownLoop(_, _, _)
ResolveKnownLoop(map, rest, resolved) ==
    IF rest = <<>> THEN [exc |-> NoError, abbr |-> <<>>, value |-> resolved]
    ELSE IF ~DictHas(map, Upper(Head(rest))) THEN ResolveKnownLoop(map, Tail(rest), resolved)
    ELSE ResolveKnownLoop(map, Tail(rest), Append(resolved, DictGet(map, Upper(Head(rest)))))

resolve_known_states(map, target_states) ==
    IF target_states = <<Wildcard>>
    THEN [exc |-> NoError, abbr |-> <<>>, value |-> DictValues(map)]
    ELSE ResolveKnownLoop(map, target_states, <<>>)

\* CensusExtractor._resolve_state_fips_list
resolve_state_fips_list(map, target_states) ==
    IF target_states = <<Wildcard>>
    THEN [exc |-> NoError, abbr |-> <<>>, value |-> DictValues(map)]
    ELSE ResolveLoop(map, target_states, <<>>)

\* The "in" parameters of the requests get_counties makes, in order.
CountyRequests(map, state_fips_list) ==
    IF Len(state_fips_list) = Len(map) THEN << <<"state", "*">> >>
    ELSE [i \in 1..Len(state_fips_list) |-> <<"state", state_fips_list[i]>>]

NoCensus ==
    [pc |-> "idle", target_states |-> <<>>, use_cache |-> FALSE,
     resolved |-> [exc |-> NoError, abbr |-> <<>>, value |-> Unset],
     state_fips_list |-> Unset, client |-> FALSE, exc |-> NoError,
     requests |-> <<>>, counties_exc |-> NoError]

CensusIdle == census = NoCensus

\* CensusExtractor(use_cache): the target states are resolved first, then the
\* cache directory is cleared of expired files (the statements of
\* WageExtractor.__init__), then the client is built.
CensusInit ==
    /\ census.pc = "idle"
    /\ \E targets \in TargetLists, use_cache \in BOOLEAN, dir \in ExtractorCacheDirs :
       \E r \in {resolve_state_fips_list(StateFipsMap, targets)} :
       \E cleared \in {IF r.exc = NoError /\ use_cache THEN WageExtractorInit(dir).exc ELSE "none"} :
          census' = [census EXCEPT
                        !.pc = IF r.exc = NoError /\ cleared = "none"
                               THEN "constructed" ELSE "raised",
                        !.target_states = targets,
                        !.use_cache = use_cache,
                        !.resolved = r,
                        !.state_fips_list = r.value,
                        !.client = r.exc = NoError /\ cleared = "none",
                        !.exc = IF r.exc # NoError THEN r.exc
                                ELSE IF cleared # "none" THEN Exc(cleared, "", 0)
                                ELSE NoError]

\* get_counties(): one request for every state of the list, or one for all
\* states; a request that raises ends the call.
CensusGetCounties ==
    /\ census.pc = "constructed"
    /\ \E plan \in {CountyRequests(StateFipsMap, census.state_fips_list)} :
       \E failed \in 0..Len(plan) :
          census' = [census EXCEPT
                        !.pc = "done",
                        !.requests = IF failed = 0 THEN plan ELSE SubSeq(plan, 1, failed),
                        !.counties_exc = IF failed = 0 THEN NoError
                                         ELSE Exc("RequestException", "", 0)]

(***************************************************************************)
(* The header lookup called on its own (src/transform/normalizers.py)      *)
(***************************************************************************)
\* FAMILY_CONFIG_MAP key k written with the separator, spacing and
\* "both working" / zero-children variations the normalizer is written for.
Spellings(k) ==
    LET key == FamilyConfigKeys[k]
        dashed == Replace(Replace(Replace(key,
                      <<" ", "1", " ", "C">>, <<" ", "-", " ", "1", " ", "C">>),
                      <<" ", "2", " ", "C">>, <<" ", "-", " ", "2", " ", "C">>),
                      <<" ", "3", " ", "C">>, <<" ", "-", " ", "3", " ", "C">>)
        both == IF k >= 9
                THEN Replace(key, <<"2", " ", "A", "d", "u", "l", "t", "s">>,
                             <<"2", " ", "A", "d", "u", "l", "t", "s", " ", "(", "B", "o", "t", "h", " ", "W", "o", "r", "k", "i", "n", "g", ")">>)
                ELSE key
    IN  {key, dashed, both,
         Replace(key, <<" ">>, <<" ", " ">>),
         Replace(key, <<" ", "(">>, <<"(">>),
         Replace(both, <<" ", "(">>, <<"(">>),
         Replace(dashed, <<" ", "(">>, <<"(">>)}
        \cup (IF FamilyConfigValues[k].children = 0
              THEN {key \o <<" ", "0", " ", "C", "h", "i", "l", "d", "r", "e", "n">>,
                    key \o <<" ", "0", " ", "C", "h", "i", "l", "d">>,
                    both \o <<" ", "-", " ", "0", " ", "C", "h", "i", "l", "d", "r", "e", "n">>}
              ELSE {})

\* The headers naming composition k: its spellings as written, in lower case
\* and in upper case.
HeaderVariants(k) ==
    UNION {{s, Lower(s), Upper(s)} : s \in Spellings(k)}

\* Headers that name no composition.
OtherHeaders ==
    {<<"i", "n", "v", "a", "l", "i", "d", " ", "c", "o", "n", "f", "i", "g">>,
     <<"3", " ", "a", "d", "u", "l", "t", "s">>, <<"C", "a", "t", "e", "g", "o", "r", "y">>}

LookupHeaders == OtherHeaders \cup UNION {HeaderVariants(k) : k \in 1..Len(FamilyConfigKeys)}

NoLookup == [called |-> FALSE, header |-> <<>>, result |-> NoMeta]

LookupIdle == lookup = NoLookup

\* get_family_config_metadata(header)
LookupMetadata ==
    /\ ~lookup.called
    /\ \E header \in LookupHeaders :
          lookup' = [called |-> TRUE, header |-> header,
                     result |-> get_family_config_metadata(header)]

(***************************************************************************)
(* Record construction on its own (src/transform/models.py)                *)
(***************************************************************************)
ValidFipsArgs == {<<"0", "1", "0", "0", "1">>, <<"1", "0", "0", "1">>}

InvalidFipsArgs == {<<"0", "1", "0", "0", "A">>, <<"0", "1", "0", "0", "1", "1">>}

\* The wage_type / expense_category arguments: one of each enumeration and
\* one of neither.
LabelArgs ==
    {<<"l", "i", "v", "i", "n", "g">>, <<"f", "o", "o", "d">>,
     <<"L", "i", "v", "i", "n", "g">>}

NoRecord ==
    [called |-> FALSE, model_class |-> "none",
     row |-> LongRow(<<>>, <<>>, NullInt, NullInt, NullInt, <<>>, NullInt, <<>>,
                     NullInt, FALSE),
     ok |-> FALSE]

RecordIdle == record = NoRecord

\* WageRecord(**row) / ExpenseRecord(**row): ok when no ValidationError is
\* raised.
ConstructRecord(model_class) ==
    /\ ~record.called
    /\ \E adults \in 0..3, working_adults \in 0..3, children \in -1..4,
          label \in LabelArgs, amount \in {-1, 0, 1550},
          county_fips \in ValidFipsArgs \cup InvalidFipsArgs :
       \E row \in {LongRow(<<>>, <<>>, adults, working_adults, children, label,
                           amount, county_fips, 20240115, FALSE)} :
          record' = [called |-> TRUE, model_class |-> model_class, row |-> row,
                     ok |-> RecordValid(model_class, row)]

ConstructWageRecord == ConstructRecord("WageRecord")

ConstructExpenseRecord == ConstructRecord("ExpenseRecord")

(***************************************************************************)
(* Batch validation (src/transform/validation.py)                          *)
(***************************************************************************)
\* The most rows of a validated frame.
MaxBatchRows == 2

Issue(field, msg) == [field |-> field, msg |-> msg]

\* A long frame handed to validate_wages / validate_expenses: whether it has
\* a county_fips column, and its rows.
Batch(has_county_fips, rows) == [has_county_fips |-> has_county_fips, rows |-> rows]

\* df["county_fips"].astype(str).str.zfill(5).eq(expected_fips).all()
AllCountyEq(rows, expected_fips) ==
    \A i \in 1..Len(rows) : ZFill(rows[i].county_fips, 5) = expected_fips

\* A check that passes as soon as one row is of the expected county.
validate_common_any(df, county_fips) ==
    IF ~df.has_county_fips
    THEN <<Issue("county_fips", "county_fips column missing")>>
    ELSE IF df.rows # <<>>
            /\ \A i \in 1..Len(df.rows) :
                  ZFill(df.rows[i].county_fips, 5) # ZFill(county_fips, 5)
    THEN <<Issue("county_fips", "county_fips values are inconsistent")>>
    ELSE <<>>

\* validation._validate_common: the errors it returns.
validate_common(df, county_fips) ==
    IF ~df.has_county_fips
    THEN <<Issue("county_fips", "county_fips column missing")>>
    ELSE IF ~AllCountyEq(df.rows, ZFill(county_fips, 5))
    THEN <<Issue("county_fips", "county_fips values are inconsistent")>>
    ELSE <<>>

\* validate_wages (model_class WageRecord) and validate_expenses
\* (ExpenseRecord): errors of _validate_common end the call; otherwise the
\* errors are those of dataframe_to_models.
ValidateBatch(model_class, df, county_fips) ==
    IF validate_common(df, county_fips) # <<>>
    THEN [ok |-> FALSE, issues |-> validate_common(df, county_fips), model_errors |-> <<>>]
    ELSE [ok |-> dataframe_to_models(df.rows, model_class).errors = <<>>,
          issues |-> <<>>,
          model_errors |-> dataframe_to_models(df.rows, model_class).errors]

\* The rows of the frames: a valid and an invalid number of adults, a label
\* of each enumeration, and three spellings of county_fips.
BatchRows ==
    {LongRow(<<>>, <<>>, adults, 1, 0, label, 2000, county_fips, 20240115, FALSE) :
        adults \in {1, 3},
        label \in {<<"l", "i", "v", "i", "n", "g">>, <<"f", "o", "o", "d">>},
        county_fips \in {<<"0", "0", "1">>, <<"1">>, <<"0", "0", "2">>}}

ExpectedCounties == {<<"0", "0", "1">>, <<"0", "0", "0", "0", "1">>, <<"0", "1", "0", "0", "1">>}

NoValidation ==
    [called |-> FALSE, model_class |-> "none", df |-> Batch(FALSE, <<>>),
     county_fips |-> <<>>, out |-> [ok |-> FALSE, issues |-> <<>>, model_errors |-> <<>>]]

ValidationIdle == validation = NoValidation

\* One call validate_wages(df, county_fips) or validate_expenses(df, county_fips).
ValidateCall(model_class) ==
    /\ ~validation.called
    /\ \E rows \in SeqsUpTo(BatchRows, MaxBatchRows), has_county_fips \in BOOLEAN,
          county_fips \in ExpectedCounties :
          validation' = [called |-> TRUE, model_class |-> model_class,
                         df |-> Batch(has_county_fips, rows),
                         county_fips |-> county_fips,
                         out |-> ValidateBatch(model_class, Batch(has_county_fips, rows),
                                               county_fips)]

ValidateWages == ValidateCall("WageRecord")

ValidateExpenses == ValidateCall("ExpenseRecord")

(***************************************************************************)
(* The scrape sequence and its session (src/extract/extract_ops.py:55-62)  *)
(***************************************************************************)
\* The most counties of one scrape sequence.
MaxSessionCounties == 4

NoSession ==
    [pc |-> "idle", counties |-> 0, opened |-> 0, closes |-> 0, used |-> <<>>,
     exc |-> NoError]

SessionIdle == session = NoSession

\* scrape_county_with_extractor(extractor, ...) on the extractor the
\* generator holds: the session the request went through and its outcome.
UseSession(s, success) ==
    [s EXCEPT !.used = Append(@, [session |-> s.opened, success |-> success])]

\* WageExtractor.__exit__ -> HttpClient.__exit__ -> self._session.close()
CloseSession(s, pc) == [s EXCEPT !.closes = @ + 1, !.pc = pc]

\* The first next() of scrape_state_counties(state_fips, county_codes):
\* WageExtractor() is constructed (its HttpClient opens the requests.Session)
\* and entered, then the first county is scraped and yielded; with no county
\* the with block ends at once.  A constructor that raises opens no session.
GeneratorStart ==
    /\ session.pc = "idle"
    /\ \E n \in 0..MaxSessionCounties, dir \in ExtractorCacheDirs, success \in BOOLEAN :
          IF WageExtractorInit(dir).exc # "none"
          THEN session' = [session EXCEPT !.pc = "raised", !.counties = n,
                                          !.exc = Exc(WageExtractorInit(dir).exc, "", 0)]
          ELSE IF n = 0
          THEN session' = CloseSession([session EXCEPT !.counties = n, !.opened = 1],
                                       "exhausted")
          ELSE session' = UseSession([session EXCEPT !.pc = "suspended", !.counties = n,
                                                     !.opened = 1], success)

\* A later next(): the next county is scraped with the same extractor and
\* yielded, or the loop ends, the with block is left and StopIteration raised.
GeneratorNext ==
    /\ session.pc = "suspended"
    /\ \E success \in BOOLEAN :
          IF Len(session.used) < session.counties
          THEN session' = UseSession(session, success)
          ELSE session' = CloseSession(session, "exhausted")

\* The body of the consumer's for loop raises: the loop is left, the generator
\* is released and finalized (close() throws GeneratorExit at the yield), and
\* the with block is left.
ConsumerRaises ==
    /\ session.pc = "suspended"
    /\ session' = CloseSession(session, "closed")

(***************************************************************************)
(* The entry point (src/main.py:138-162)                                   *)
(***************************************************************************)
\* settings.pipeline.target_states as the configuration holds it: every
\* entry upper-cased (config/models.py, PipelineConfig.normalize_states).
ConfiguredTargets ==
    {[i \in 1..Len(t) |-> Upper(t[i])] : t \in TargetLists}

\* How a call of process_state for a known state can end: get_county_codes_for_state
\* raises, start_run raises, the run is ended by the last statement of the
\* try, or it is ended by the except handler, which re-raises.
ProcessOutcomes == {"counties_raise", "start_run_raise", "completed", "failed"}

\* process_state(target_state, settings): the state it was called for, whether
\* the mapping knows it, and whether start_run and end_run were called.
process_state(target_state, outcome) ==
    IF ~DictHas(StateFipsMap, target_state)
    THEN [target_state |-> target_state, state_fips |-> "", started |-> FALSE,
          ended |-> FALSE, raised |-> FALSE]
    ELSE [target_state |-> target_state, state_fips |-> DictGet(StateFipsMap, target_state),
          started |-> outcome \in {"completed", "failed"},
          ended |-> outcome \in {"completed", "failed"},
          raised |-> outcome # "completed"]

NoMain == [pc |-> "idle", target_states |-> <<>>, connected |-> FALSE, calls |-> <<>>]

MainIdle == mainrun = NoMain

\* main() up to its loop: test_connection() False ends it.
MainStart ==
    /\ mainrun.pc = "idle"
    /\ \E targets \in ConfiguredTargets, connected \in BOOLEAN :
          mainrun' = [mainrun EXCEPT
                         !.pc = IF ~connected THEN "returned"
                                ELSE IF targets = <<>> THEN "done" ELSE "loop",
                         !.target_states = targets,
                         !.connected = connected]

\* One iteration of `for target_state in target_states`: process_state is
\* called and an exception it raises is logged.
MainProcessState ==
    /\ mainrun.pc = "loop"
    /\ \E outcome \in ProcessOutcomes :
       \E call \in {process_state(mainrun.target_states[Len(mainrun.calls) + 1], outcome)} :
          mainrun' = [mainrun EXCEPT
                         !.calls = Append(@, call),
                         !.pc = IF Len(mainrun.calls) + 1 = Len(mainrun.target_states)
                                THEN "done" ELSE "loop"]

(***************************************************************************)
(* The specifications                                                      *)
(***************************************************************************)
InitHttp == HttpStart /\ CacheIdle /\ ExtractIdle /\ NormalizeIdle /\ PipelineIdle /\ ClientIdle /\ KeyIdle /\ StatusIdle /\ TrackerIdle /\ LoadIdle /\ CensusIdle /\ LookupIdle /\ RecordIdle /\ ValidationIdle /\ SessionIdle /\ MainIdle

NextHttp ==
    \/ FetchWithRetry /\ UNCHANGED exceptHttp
    \/ AttemptReturns /\ UNCHANGED exceptHttp
    \/ AttemptNetworkError /\ UNCHANGED exceptHttp
    \/ AttemptHTTPError /\ UNCHANGED exceptHttp
    \/ AttemptRequestException /\ UNCHANGED exceptHttp

SpecHttp == InitHttp /\ [][NextHttp]_vars

\* The call is made and the interpreter keeps executing it.
SpecHttpLive == SpecHttp /\ WF_vars(NextHttp)

InitClient == ClientStart /\ ExtractIdle /\ NormalizeIdle /\ PipelineIdle /\ KeyIdle /\ StatusIdle /\ TrackerIdle /\ LoadIdle /\ CensusIdle /\ LookupIdle /\ RecordIdle /\ ValidationIdle /\ SessionIdle /\ MainIdle

NextClient ==
    \/ (gpc = "idle" /\ Tick) /\ UNCHANGED <<httpVars, clientVars, exceptClient>>
    \/ ClientGet /\ UNCHANGED exceptClient
    \/ ClientFetch /\ UNCHANGED exceptClient
    \/ AttemptReturns /\ UNCHANGED <<cacheVars, clientVars, exceptClient>>
    \/ AttemptNetworkError /\ UNCHANGED <<cacheVars, clientVars, exceptClient>>
    \/ AttemptHTTPError /\ UNCHANGED <<cacheVars, clientVars, exceptClient>>
    \/ AttemptRequestException /\ UNCHANGED <<cacheVars, clientVars, exceptClient>>
    \/ ClientStoreAndReturn /\ UNCHANGED exceptClient
    \/ ClientFetchRaised /\ UNCHANGED exceptClient

SpecClient == InitClient /\ [][NextClient]_vars

InitKey == KeyIdle /\ HttpIdle /\ CacheIdle /\ ClientIdle /\ ExtractIdle /\ NormalizeIdle /\ PipelineIdle /\ StatusIdle /\ TrackerIdle /\ LoadIdle /\ CensusIdle /\ LookupIdle /\ RecordIdle /\ ValidationIdle /\ SessionIdle /\ MainIdle

NextKey == BuildKeys /\ UNCHANGED exceptKey

SpecKey == InitKey /\ [][NextKey]_vars

InitCache == CacheStart /\ HttpIdle /\ ExtractIdle /\ NormalizeIdle /\ PipelineIdle /\ ClientIdle /\ KeyIdle /\ StatusIdle /\ TrackerIdle /\ LoadIdle /\ CensusIdle /\ LookupIdle /\ RecordIdle /\ ValidationIdle /\ SessionIdle /\ MainIdle

NextCache ==
    \/ CacheGet /\ UNCHANGED exceptCache
    \/ CacheStore /\ UNCHANGED exceptCache
    \/ Tick /\ UNCHANGED exceptCache

SpecCache == InitCache /\ [][NextCache]_vars

\* The extractors call clear_expired once, when they are constructed.
NextClear ==
    \/ ClearExpired /\ UNCHANGED exceptCache
    \/ (~lastClear.called /\ Tick) /\ UNCHANGED exceptCache

SpecClear == InitCache /\ [][NextClear]_vars

InitExtract == ExtractIdle /\ HttpIdle /\ CacheIdle /\ NormalizeIdle /\ PipelineIdle /\ ClientIdle /\ KeyIdle /\ StatusIdle /\ TrackerIdle /\ LoadIdle /\ CensusIdle /\ LookupIdle /\ RecordIdle /\ ValidationIdle /\ SessionIdle /\ MainIdle

NextExtract ==
    \/ ScrapeCountyWithExtractor /\ UNCHANGED exceptExtract
    \/ ScrapeCounty /\ UNCHANGED exceptExtract

SpecExtract == InitExtract /\ [][NextExtract]_vars

InitNormalize == NormalizeIdle /\ HttpIdle /\ CacheIdle /\ ExtractIdle /\ PipelineIdle /\ ClientIdle /\ KeyIdle /\ StatusIdle /\ TrackerIdle /\ LoadIdle /\ CensusIdle /\ LookupIdle /\ RecordIdle /\ ValidationIdle /\ SessionIdle /\ MainIdle

NextNormalize ==
    \/ NormalizeWages /\ UNCHANGED exceptTransform
    \/ NormalizeExpenses /\ UNCHANGED exceptTransform

SpecNormalize == InitNormalize /\ [][NextNormalize]_vars

InitPipeline == PipelineStart /\ HttpIdle /\ CacheIdle /\ ExtractIdle /\ NormalizeIdle /\ ClientIdle /\ KeyIdle /\ StatusIdle /\ TrackerIdle /\ LoadIdle /\ CensusIdle /\ LookupIdle /\ RecordIdle /\ ValidationIdle /\ SessionIdle /\ MainIdle

NextPipeline ==
    \/ StartRun /\ UNCHANGED exceptPipeline
    \/ OpenExtractor /\ UNCHANGED exceptPipeline
    \/ ProcessCounty /\ UNCHANGED exceptPipeline
    \/ BulkUpsertWages /\ UNCHANGED exceptPipeline
    \/ BulkUpsertExpenses /\ UNCHANGED exceptPipeline
    \/ LoadWageRejects /\ UNCHANGED exceptPipeline
    \/ LoadExpenseRejects /\ UNCHANGED exceptPipeline
    \/ EndRun /\ UNCHANGED exceptPipeline
    \/ ExceptHandler /\ UNCHANGED exceptPipeline

SpecPipeline == InitPipeline /\ [][NextPipeline]_vars

\* process_state runs on: no step of it waits for anything but its own calls.
SpecPipelineLive == SpecPipeline /\ WF_vars(NextPipeline)

\* The status decision of process_state on its own.
InitStatus ==
    /\ ValidationIdle /\ SessionIdle /\ MainIdle
    /\ CensusIdle /\ LookupIdle /\ RecordIdle
    /\ StatusIdle /\ TrackerIdle /\ HttpIdle /\ CacheIdle /\ ClientIdle /\ KeyIdle
    /\ ExtractIdle /\ NormalizeIdle /\ PipelineIdle /\ LoadIdle

NextStatus == DetermineStatus /\ UNCHANGED exceptStatus

SpecStatus == InitStatus /\ [][NextStatus]_vars

\* Run tracking on its own.
InitTracker ==
    /\ ValidationIdle /\ SessionIdle /\ MainIdle
    /\ CensusIdle /\ LookupIdle /\ RecordIdle
    /\ TrackerIdle /\ StatusIdle /\ HttpIdle /\ CacheIdle /\ ClientIdle /\ KeyIdle
    /\ ExtractIdle /\ NormalizeIdle /\ PipelineIdle /\ LoadIdle

NextTracker ==
    \/ TrackerStartRun /\ UNCHANGED exceptTracker
    \/ TrackerEndRun /\ UNCHANGED exceptTracker

SpecTracker == InitTracker /\ [][NextTracker]_vars

\* The load functions on their own.
InitLoad ==
    /\ ValidationIdle /\ SessionIdle /\ MainIdle
    /\ CensusIdle /\ LookupIdle /\ RecordIdle
    /\ LoadIdle /\ TrackerIdle /\ StatusIdle /\ HttpIdle /\ CacheIdle /\ ClientIdle
    /\ KeyIdle /\ ExtractIdle /\ NormalizeIdle /\ PipelineIdle

NextLoad ==
    \/ LoadBulkUpsertWages /\ UNCHANGED exceptLoad
    \/ LoadBulkUpsertExpenses /\ UNCHANGED exceptLoad
    \/ LoadRejectsCall /\ UNCHANGED exceptLoad

SpecLoad == InitLoad /\ [][NextLoad]_vars

\* The Census extractor on its own.
InitCensus ==
    /\ ValidationIdle /\ SessionIdle /\ MainIdle
    /\ CensusIdle /\ LookupIdle /\ RecordIdle /\ LoadIdle /\ TrackerIdle /\ StatusIdle
    /\ HttpIdle /\ CacheIdle /\ ClientIdle /\ KeyIdle /\ ExtractIdle /\ NormalizeIdle
    /\ PipelineIdle

NextCensus ==
    \/ CensusInit /\ UNCHANGED exceptCensus
    \/ CensusGetCounties /\ UNCHANGED exceptCensus

SpecCensus == InitCensus /\ [][NextCensus]_vars

\* The header lookup on its own.
InitLookup ==
    /\ ValidationIdle /\ SessionIdle /\ MainIdle
    /\ LookupIdle /\ CensusIdle /\ RecordIdle /\ LoadIdle /\ TrackerIdle /\ StatusIdle
    /\ HttpIdle /\ CacheIdle /\ ClientIdle /\ KeyIdle /\ ExtractIdle /\ NormalizeIdle
    /\ PipelineIdle

NextLookup == LookupMetadata /\ UNCHANGED exceptLookup

SpecLookup == InitLookup /\ [][NextLookup]_vars

\* Record construction on its own.
InitModels ==
    /\ ValidationIdle /\ SessionIdle /\ MainIdle
    /\ RecordIdle /\ LookupIdle /\ CensusIdle /\ LoadIdle /\ TrackerIdle /\ StatusIdle
    /\ HttpIdle /\ CacheIdle /\ ClientIdle /\ KeyIdle /\ ExtractIdle /\ NormalizeIdle
    /\ PipelineIdle

NextModels ==
    \/ ConstructWageRecord /\ UNCHANGED exceptModels
    \/ ConstructExpenseRecord /\ UNCHANGED exceptModels

SpecModels == InitModels /\ [][NextModels]_vars

\* Batch validation on its own.
InitValidate ==
    /\ ValidationIdle /\ SessionIdle /\ MainIdle
    /\ RecordIdle /\ LookupIdle /\ CensusIdle /\ LoadIdle /\ TrackerIdle /\ StatusIdle
    /\ HttpIdle /\ CacheIdle /\ ClientIdle /\ KeyIdle /\ ExtractIdle /\ NormalizeIdle
    /\ PipelineIdle

NextValidate ==
    \/ ValidateWages /\ UNCHANGED exceptValidate
    \/ ValidateExpenses /\ UNCHANGED exceptValidate

SpecValidate == InitValidate /\ [][NextValidate]_vars

\* One scrape sequence on its own.
InitSession ==
    /\ SessionIdle /\ ValidationIdle /\ MainIdle
    /\ RecordIdle /\ LookupIdle /\ CensusIdle /\ LoadIdle /\ TrackerIdle /\ StatusIdle
    /\ HttpIdle /\ CacheIdle /\ ClientIdle /\ KeyIdle /\ ExtractIdle /\ NormalizeIdle
    /\ PipelineIdle

NextSession ==
    \/ GeneratorStart /\ UNCHANGED exceptSession
    \/ GeneratorNext /\ UNCHANGED exceptSession
    \/ ConsumerRaises /\ UNCHANGED exceptSession

SpecSession == InitSession /\ [][NextSession]_vars

\* main on its own.
InitMain ==
    /\ MainIdle /\ SessionIdle /\ ValidationIdle
    /\ RecordIdle /\ LookupIdle /\ CensusIdle /\ LoadIdle /\ TrackerIdle /\ StatusIdle
    /\ HttpIdle /\ CacheIdle /\ ClientIdle /\ KeyIdle /\ ExtractIdle /\ NormalizeIdle
    /\ PipelineIdle

NextMain ==
    \/ MainStart /\ UNCHANGED exceptMain
    \/ MainProcessState /\ UNCHANGED exceptMain

SpecMain == InitMain /\ [][NextMain]_vars

(***************************************************************************)
(* Claims about HttpClient._fetch_with_retry                               *)
(***************************************************************************)
IsServerError(o) == o.kind = "HTTPError" /\ o.status \in 500..599

IsOtherHttpError(o) ==
    o.kind = "HTTPError" /\ o.status \notin ({404, 429} \cup (500..599))

\* C4: an HTTP status in 500..599 never ends the call at once: the call is
\* raised on a 5xx failure only when max_retries attempts have been made, and
\* a 5xx failure that is not the last permitted attempt is followed by a
\* backoff sleep.
C4_ServerErrorIsRetried ==
    \A i \in 1..Len(calls) :
        IsServerError(calls[i]) =>
            /\ (hpc = "raised" /\ i = Len(calls)) => Len(calls) = max_retries
            /\ i < max_retries => Len(sleeps) >= i

\* C5: an HTTP error status other than 404, 429 and 5xx ends the call at
\* once: it is the last attempt, nothing is slept for it, and it is the
\* error that is raised.
C5_OtherHttpErrorFailsAtOnce ==
    \A i \in 1..Len(calls) :
        IsOtherHttpError(calls[i]) =>
            /\ i = Len(calls)
            /\ hpc = "raised"
            /\ raised = calls[i]
            /\ Len(sleeps) = i - 1

\* C11: an HTTP 404 ends the call at once, for every max_retries >= 1: it is
\* the last attempt, no backoff sleep follows it and it is the error raised;
\* a 404 on the first attempt makes exactly one attempt and no sleep at all.
C11_NotFoundFailsAtOnce ==
    \A i \in 1..Len(calls) :
        calls[i] = Outcome("HTTPError", 404) =>
            /\ i = Len(calls)
            /\ hpc = "raised"
            /\ raised = calls[i]
            /\ Len(sleeps) = i - 1
            /\ i = 1 => sleeps = <<>>

\* Three retries were allowed and the first attempt met a 404.
C11_Witness ==
    /\ max_retries = 3
    /\ calls = <<Outcome("HTTPError", 404)>>
    /\ hpc = "raised"
    /\ raised = Outcome("HTTPError", 404)
    /\ sleeps = <<>>

\* Failures that are retried by the contract and by the match statement.
RetryableFailures == NetworkErrors \cup {Outcome("HTTPError", 429)}

\* Every one of the max_retries attempts failed with a retryable failure.
RetriesExhausted ==
    /\ hpc = "raised"
    /\ Len(calls) = max_retries
    /\ \A i \in 1..Len(calls) : calls[i] \in RetryableFailures

\* The exceptions a single attempt raises out of _fetch_with_retry.
NonRetryableKinds == {"HTTPError", "RequestException"}

\* C12: when every attempt failed with a retryable failure the error raised
\* is a distinguished one: it is not the exception of an attempt, and its
\* class is not one that a single non-retryable attempt raises.
C12_ExhaustionRaisesDistinguishedError ==
    RetriesExhausted =>
        /\ raised # calls[Len(calls)]
        /\ raised.kind \notin NonRetryableKinds

\* C13: every call ends; it makes at most max_retries attempts and at most
\* max_retries - 1 backoff sleeps, and no sleep follows its final attempt.
C13_BoundedAttemptsAndSleeps ==
    /\ [](/\ Len(calls) <= max_retries
          /\ Len(sleeps) <= max_retries - 1
          /\ Len(sleeps) <= Len(calls)
          /\ hpc \in {"returned", "raised"} => Len(sleeps) <= Len(calls) - 1)
    /\ <>(hpc \in {"returned", "raised"})

\* Three attempts failed and two sleeps were made.
C13_Witness ==
    /\ max_retries = 3
    /\ hpc = "raised"
    /\ Len(calls) = 3
    /\ Len(sleeps) = 2

\* C14: a timeout or connection error on 0-based attempt k that is followed
\* by another attempt is followed by a sleep of 1 * 2^k seconds, an HTTP 429
\* by one of 4 * 2^k seconds; a failure followed by a success makes exactly
\* two attempts and one sleep.
C14_BackoffDelays ==
    /\ \A i \in 1..(Len(calls) - 1) :
          /\ calls[i] \in NetworkErrors => sleeps[i] = 1 * Pow2(i - 1)
          /\ calls[i] = Outcome("HTTPError", 429) => sleeps[i] = 4 * Pow2(i - 1)
    /\ (hpc = "returned" /\ Len(calls) = 2) => Len(sleeps) = 1

\* A timeout, a 429 and a success: sleeps of 1 and of 8 seconds.
C14_Witness ==
    /\ hpc = "returned"
    /\ calls = <<Outcome("Timeout", 0), Outcome("HTTPError", 429), Outcome("ok", 200)>>
    /\ sleeps = <<1, 8>>

(***************************************************************************)
(* Claims about ResponseCache                                              *)
(***************************************************************************)
\* The entry that the last get found was readable and older than the TTL.
FoundExpired ==
    /\ lastGet.key # ""
    /\ lastGet.before.json = "object"
    /\ lastGet.before.ts.tag = "iso"
    /\ lastGet.at - lastGet.before.ts.val[1] > ttl_days

\* The entry that the last get found was corrupt: not UTF-8, not JSON, not a
\* JSON object, without a usable timestamp or without decodable content.
FoundCorrupt ==
    /\ lastGet.key # ""
    /\ \/ lastGet.before.json \in {"bad_utf8", "bad_json", "list"}
       \/ /\ lastGet.before.json = "object"
          /\ \/ lastGet.before.ts.tag # "iso"
             \/ lastGet.before.content.tag # "b64"
             \/ Len(lastGet.before.content.val) % 4 # 0

\* C8: a get that finds an entry older than the TTL returns null and deletes
\* the entry: the file is gone when the call returns.
C8_ExpiredEntryIsDeleted ==
    FoundExpired =>
        /\ lastGet.exc = "none"
        /\ lastGet.result = None
        /\ lastGet.after = Absent

\* C9: a get that finds a corrupt entry raises nothing, returns null and
\* deletes the entry.
C9_CorruptEntryIsDeleted ==
    FoundCorrupt =>
        /\ lastGet.exc = "none"
        /\ lastGet.result = None
        /\ lastGet.after = Absent

\* The cache held an entry written by store for the key of the request, not
\* older than the TTL when get looked it up.
GetFoundFresh ==
    /\ gpc # "idle"
    /\ \E d \in 0..MaxClock, c \in Contents :
          lastGet.before = StoredFile(d, c) /\ lastGet.at - d <= ttl_days

ParamSet(params) ==
    IF params = NoParams THEN {} ELSE {params[i] : i \in 1..Len(params)}

\* C18: two requests with the same URL and the same set of parameters get the
\* same cache key, and two requests that differ in URL or in a parameter
\* value get different keys.
C18_KeyDependsOnUrlAndParams ==
    keyreq # <<>> =>
        ((keyreq[1].url = keyreq[2].url
            /\ ParamSet(keyreq[1].params) = ParamSet(keyreq[2].params))
         <=> keyreq[1].cache_key = keyreq[2].cache_key)

\* C16: after store(k, c), and after store(k, c1) followed by store(k, c2),
\* a get(k) within the TTL returns exactly the bytes last stored, and leaves
\* the entry in place.
C16_StoreThenGet ==
    \A k \in CacheKeys :
        stored[k] # NotStored =>
            /\ files[k] = StoredFile(stored[k].val[2], stored[k].val[1])
            /\ now - stored[k].val[2] <= ttl_days =>
                   GetResult(k) = [result |-> Bytes(stored[k].val[1]), exc |-> "none",
                                   unlink |-> FALSE]
            /\ (lastGet.key = k /\ lastGet.before = files[k]
                   /\ lastGet.at - stored[k].val[2] <= ttl_days) =>
                   /\ lastGet.result = Bytes(stored[k].val[1])
                   /\ lastGet.after = lastGet.before

\* A store on day 1 over an entry of day 0, then a get that returned the
\* bytes stored on day 1.
C16_Witness ==
    \E k \in CacheKeys :
        /\ stored[k] = Field("stored", <<<<111, 108, 100, 33>>, 1>>)
        /\ lastGet.key = k
        /\ lastGet.at = 2
        /\ lastGet.before = StoredFile(1, <<111, 108, 100, 33>>)
        /\ lastGet.result = Bytes(<<111, 108, 100, 33>>)

\* A file that get cannot read: get raises on it or deletes it.
IsCorrupt(f) == f # Absent /\ GetException(f) # "none"

\* A readable file whose timestamp is older than the TTL on the given day.
IsExpiredOn(f, day) ==
    f # Absent /\ ClearException(f) = "none" /\ day - FromIsoFormat(f.ts) > ttl_days

\* C17: clear_expired raises nothing, deletes exactly the entries that are
\* expired or corrupt, returns the number of entries it deleted, and leaves
\* every other entry as it was.
C17_ClearExpiredDeletesExactly ==
    lastClear.called =>
        /\ lastClear.exc = "none"
        /\ \A k \in CacheKeys :
              IF IsExpiredOn(lastClear.before[k], lastClear.at)
                 \/ (~IsExpiredOn(lastClear.before[k], lastClear.at)
                       /\ IsCorrupt(lastClear.before[k]))
              THEN lastClear.after[k] = Absent
              ELSE lastClear.after[k] = lastClear.before[k]
        /\ lastClear.count =
              Cardinality({k \in CacheKeys : lastClear.before[k] # Absent
                                              /\ lastClear.after[k] = Absent})


(***************************************************************************)
\* get_county_data returned a dict that carries wages_data and expenses_data.
ReturnedCountyData ==
    /\ scrape.fn # "none"
    /\ scrape.outcome.exc = NoError
    /\ {"wages_data", "expenses_data"} \subseteq scrape.outcome.data.keys

\* C3: when get_county_data returns a dict that carries wages_data and
\* expenses_data (the fetch succeeded and the page held two results tables),
\* the ScrapeResult has success=True, fips_code = state_fips + county_fips,
\* wages_data = the rows of table 0 and expenses_data = the rows of table 1.
C3_TwoTablesGiveSuccess ==
    ReturnedCountyData =>
        /\ scrape.raised = NoError
        /\ scrape.returned.success
        /\ scrape.returned.fips_code = scrape.state_fips \o scrape.county_fips
        /\ scrape.returned.wages_data = SomeData(scrape.outcome.data.wages_data)
        /\ scrape.returned.expenses_data = SomeData(scrape.outcome.data.expenses_data)

\* C10: when the extractor raises while fetching or parsing a county,
\* scrape_county and scrape_county_with_extractor raise nothing and return
\* ScrapeResult(success=False, error=str(exception)) with
\* fips_code = state_fips + county_fips.
C10_ExtractorExceptionIsReturned ==
    (scrape.fn # "none" /\ scrape.outcome.exc # NoError) =>
        /\ scrape.raised = NoError
        /\ ~scrape.returned.success
        /\ scrape.returned.error = StrOf(scrape.outcome.exc)
        /\ scrape.returned.fips_code = scrape.state_fips \o scrape.county_fips

\* scrape_county has turned a parse failure of the page into a result.
C10_Witness ==
    /\ scrape.fn = "scrape_county"
    /\ scrape.outcome.exc.type = "ValueError"
    /\ scrape.raised = NoError
    /\ ~scrape.returned.success
    /\ scrape.returned.error = StrOf(scrape.outcome.exc)

(***************************************************************************)
(* Claims about normalize_wages and normalize_expenses                     *)
(***************************************************************************)
\* The model class of a bulk upsert.
ModelClassOf(fn) == IF fn = "bulk_upsert_wages" THEN "WageRecord" ELSE "ExpenseRecord"

\* C1: normalize_wages / normalize_expenses with validate=True return no
\* melted row that fails the WageRecord / ExpenseRecord schema: every row of
\* the returned frame is a validated record, also when only some rows of the
\* table fail.
C1_ReturnedRowsAreValidated ==
    (norm.fn # "none" /\ norm.out.exc = NoError) =>
        \A i \in 1..Len(norm.out.rows) : RecordValid(norm.model_class, norm.out.rows[i])

C6_ExactlyOneEndRun ==
    (ppc \in {"returned", "raised"} /\ run_id # 0) =>
        /\ etl_runs[run_id].run_status \in TerminalStatuses
        /\ Len(end_run_calls) = 1

\* The failure handler has finalized the run and re-raised the exception.
FinalizedByHandler ==
    /\ ppc = "raised"
    /\ run_id # 0
    /\ end_run_calls # <<>>
    /\ end_run_calls[Len(end_run_calls)].db = NoError

C19_StatusFollowsCounts ==
    decision.made =>
        LET total_loaded == decision.wages_loaded + decision.expenses_loaded
            total_rejected == decision.wages_rejected + decision.expenses_rejected
            status == decision.end_run.run_status
        IN  /\ (status = "FAILED") <=> (total_loaded = 0)
            /\ (status = "PARTIAL") <=> (total_loaded > 0 /\ total_rejected > 0)
            /\ (status = "SUCCESS") <=> (total_loaded > 0 /\ total_rejected = 0)
            /\ decision.end_run.wages_loaded = decision.wages_loaded
            /\ decision.end_run.wages_rejected = decision.wages_rejected
            /\ decision.end_run.expenses_loaded = decision.expenses_loaded
            /\ decision.end_run.expenses_rejected = decision.expenses_rejected
            /\ decision.end_run.error_message = NoneStr

\* Only expenses were loaded, only wage records were rejected: PARTIAL.
C19_Witness ==
    /\ decision.made
    /\ decision.wages_loaded = 0
    /\ decision.expenses_loaded > 0
    /\ decision.wages_rejected > 0
    /\ decision.expenses_rejected = 0
    /\ decision.end_run.run_status = "PARTIAL"

(***************************************************************************)
(* Claims about start_run and end_run                                      *)
(***************************************************************************)
\* C20: a start_run that commits adds exactly one row, with status RUNNING and
\* the state it was given, keeps every row that was there, and returns the key
\* of the new row; an end_run that commits writes the end time, the status,
\* the counts and the error message to the row whose key is its run_id, which
\* keeps its state, and leaves every other row, and the number of rows, as
\* they were.
C20_RunRowFrame ==
    /\ (tracker.fn = "start_run" /\ tracker.db = NoError) =>
          /\ Len(etl_runs) = Len(tracker.before) + 1
          /\ \A i \in 1..Len(tracker.before) : etl_runs[i] = tracker.before[i]
          /\ tracker.run_id = Len(etl_runs)
          /\ etl_runs[tracker.run_id].run_status = "RUNNING"
          /\ etl_runs[tracker.run_id].state_fips = tracker.state_fips
          /\ etl_runs[tracker.run_id].run_end_timestamp = "NULL"
    /\ (tracker.fn = "end_run" /\ tracker.db = NoError) =>
          /\ Len(etl_runs) = Len(tracker.before)
          /\ \A i \in 1..Len(etl_runs) :
                IF i = tracker.run_id
                THEN /\ \A f \in DOMAIN tracker.args : etl_runs[i][f] = tracker.args[f]
                     /\ etl_runs[i].run_end_timestamp = "now"
                     /\ etl_runs[i].state_fips = tracker.before[i].state_fips
                ELSE etl_runs[i] = tracker.before[i]

\* Two runs were started; end_run ended the first, the second is still
\* RUNNING.
C20_Witness ==
    /\ tracker.fn = "end_run"
    /\ tracker.db = NoError
    /\ tracker.run_id = 1
    /\ Len(etl_runs) = 2
    /\ tracker.before[1].run_status = "RUNNING"
    /\ etl_runs[1].run_status = "PARTIAL"
    /\ etl_runs[2].run_status = "RUNNING"

(***************************************************************************)
(* Claims about bulk_upsert_wages, bulk_upsert_expenses and load_rejects   *)
(***************************************************************************)
NaturalKeysUnique(table) == \A a \in table, b \in table : SameKey(a, b) => a = b

IsBulkUpsert(call) == call.fn \in {"bulk_upsert_wages", "bulk_upsert_expenses"}

\* A frame of validated records: model_dump of a WageRecord / ExpenseRecord
\* carries the five-digit county_fips of validate_county_fips; no key twice.
IsFrameOfRecords(df) ==
    /\ df.rows # <<>>
    /\ ~df.missing
    /\ ~HasDuplicateKeys(df.rows)
    /\ \A i \in 1..Len(df.rows) :
          Len(df.rows[i].county_fips) = 5 /\ IsDigitStr(df.rows[i].county_fips)

\* The rows of a table that have the natural key of a frame row.
RowsOfKey(table, r) == {t \in table : SameKey(t, r)}

\* C21: the staging tables never hold two rows with one natural key, and
\* after a bulk upsert of a frame of records that no database fault
\* interrupted, each record of the frame has exactly one row, with its
\* monetary value (so upserting R and then R', same key, leaves one row
\* holding the value of R').
C21_OneRowPerKeyLatestValue ==
    /\ NaturalKeysUnique(staging.stg_wages)
    /\ NaturalKeysUnique(staging.stg_expenses)
    /\ (IsBulkUpsert(load_call) /\ IsFrameOfRecords(load_call.df)
            /\ load_call.fault = "none") =>
          \A i \in 1..Len(load_call.df.rows) :
             /\ Cardinality(RowsOfKey(staging[load_call.table], load_call.df.rows[i])) = 1
             /\ \A t \in RowsOfKey(staging[load_call.table], load_call.df.rows[i]) :
                   t.amount = load_call.df.rows[i].amount

\* The natural key of a row.
KeyOf(t) == <<t.county_fips, t.adults, t.working_adults, t.children, t.label>>

\* C22: after a bulk upsert that committed, a row that was in the table and
\* whose natural key is in the frame is still the one row of that key and
\* holds the monetary value of the frame and the timestamp of the statement;
\* a row whose natural key is not in the frame is in the table as it was; the
\* keys of the table are those it had and those of the frame.
C22_ConflictUpdatesValueOnly ==
    (IsBulkUpsert(load_call) /\ load_call.conn.committed) =>
        LET before == load_call.before[load_call.table]
            after == staging[load_call.table]
            rows == load_call.df.rows
        IN  /\ \A t \in before :
                  IF \E i \in 1..Len(rows) : SameKey(t, rows[i])
                  THEN \A i \in 1..Len(rows) :
                          SameKey(t, rows[i]) =>
                              /\ Cardinality(RowsOfKey(after, t)) = 1
                              /\ \A u \in RowsOfKey(after, t) :
                                    /\ u.amount = rows[i].amount
                                    /\ u.load_timestamp = [by |-> "update", at |-> load_clock]
                                    /\ KeyOf(u) = KeyOf(t)
                  ELSE t \in after
            /\ {KeyOf(u) : u \in after} =
                  {KeyOf(t) : t \in before} \cup {KeyOf(rows[i]) : i \in 1..Len(rows)}
            /\ Cardinality(after) = Cardinality({KeyOf(u) : u \in after})

\* The table held the living and the poverty wage of a county; an upsert of
\* the living wage with another value committed: conflict on one row, the
\* other row not in the frame.
C22_Witness ==
    /\ load_call.fn = "bulk_upsert_wages"
    /\ load_call.conn.committed
    /\ Cardinality(load_call.before.stg_wages) = 2
    /\ Len(load_call.df.rows) = 1
    /\ \E t \in load_call.before.stg_wages :
          SameKey(t, load_call.df.rows[1]) /\ t.amount # load_call.df.rows[1].amount

\* C23: a call that opened a connection closed it once.  If it raised, the
\* connection was rolled back once and nothing was committed: the four tables
\* are as before the call; when the failure is not that of commit itself,
\* commit was not called.  If it returned, commit was called once, nothing
\* was rolled back, and every row of the call is in its table.  A call that
\* opened no connection wrote nothing.
C23_CommitAllOrRollback ==
    load_call.fn # "none" =>
        LET c == load_call.conn
        IN  /\ c.opened => c.closes = 1
            /\ ~c.opened =>
                  /\ staging = load_call.before
                  /\ c.commit_calls = 0 /\ c.rollbacks = 0 /\ c.closes = 0
            /\ (c.opened /\ load_call.exc # NoError) =>
                  /\ c.rollbacks = 1
                  /\ ~c.committed
                  /\ staging = load_call.before
                  /\ load_call.fault # "commit" => c.commit_calls = 0
            /\ (c.opened /\ load_call.exc = NoError) =>
                  /\ c.commit_calls = 1
                  /\ c.committed
                  /\ c.rollbacks = 0
                  /\ IsBulkUpsert(load_call) =>
                        \A i \in 1..Len(load_call.df.rows) :
                           \E t \in staging[load_call.table] :
                              /\ SameKey(t, load_call.df.rows[i])
                              /\ t.amount = load_call.df.rows[i].amount
                  /\ load_call.fn = "load_rejects" =>
                        staging[load_call.table] =
                            load_call.before[load_call.table]
                                \o RejectRows(load_call.records, load_call.run_id)

\* A bulk upsert of two rows whose INSERT failed after the COPY into the temp
\* table: rolled back and closed.
C23_Witness ==
    /\ load_call.fn = "bulk_upsert_wages"
    /\ load_call.fault = "insert"
    /\ Len(load_call.df.rows) = 2
    /\ load_call.exc = DbError
    /\ load_call.conn.rollbacks = 1
    /\ load_call.conn.closes = 1

\* C24: a call of load_rejects whose table is not one of the two reject
\* tables raises ValueError, opens no connection, leaves the tables as they
\* were, and no COPY statement names a table outside the two.
C24_RejectTableWhitelist ==
    /\ load_call.copy_into \in ALLOWED_REJECT_TABLES \cup {"none"}
    /\ (load_call.fn = "load_rejects" /\ load_call.table \notin ALLOWED_REJECT_TABLES) =>
          /\ load_call.exc.type = "ValueError"
          /\ ~load_call.conn.opened
          /\ staging = load_call.before

(***************************************************************************)
(* Claims about the loop over scrape_state_counties                        *)
(***************************************************************************)
\* The generator of scrape_state_counties has ended: by exhaustion or by an
\* exception.
GeneratorEnded == run_id # 0 /\ ppc \notin {"open_extractor", "scrape"}

\* C25: the i-th result scrape_state_counties yields has fips_code
\* state_fips + county_codes[i], and when the generator has ended it has
\* yielded one result for each element of county_codes.
C25_OneResultPerCountyInOrder ==
    /\ Len(results) <= Len(county_codes)
    /\ \A i \in 1..Len(results) :
          results[i].fips_code = run_state_fips \o county_codes[i]
    /\ GeneratorEnded => Len(results) = Len(county_codes)

FailedOutcomes == {"scrape_failed", "wages_invalid", "expenses_invalid", "transform_error"}

\* C26: while the loop runs nothing is being raised and the results so far
\* are those of the counties before the next one; once a county has been
\* processed, whatever its outcome, the loop is left only when every county
\* has been; a run that started and ended called end_run; and the loop always
\* gets to the load step, and a started run to end_run.
C26_CountyFailureDoesNotAbort ==
    /\ [](ppc = "scrape" =>
            (pending = NoError /\ next_county <= Len(county_codes)
                /\ Len(results) = next_county - 1))
    /\ []((results # <<>> /\ ppc # "scrape") => Len(results) = Len(county_codes))
    /\ []((run_id # 0 /\ ppc \in {"returned", "raised"}) => end_run_calls # <<>>)
    /\ ((ppc = "scrape") ~> (ppc = "bulk_upsert_wages"))
    /\ ((run_id # 0) ~> (end_run_calls # <<>>))

\* The first county failed table validation, the second failed to scrape,
\* and end_run was called on the normal path.
C26_Witness ==
    /\ Len(results) = 2
    /\ results[1].outcome \in {"wages_invalid", "expenses_invalid", "transform_error"}
    /\ results[2].outcome = "scrape_failed"
    /\ ppc = "returned"
    /\ end_run_calls # <<>>

AllKnown(targets) == \A i \in 1..Len(targets) : DictHas(StateFipsMap, Upper(targets[i]))

\* C28: _resolve_state_fips_list turns the wildcard into the FIPS codes of
\* every state of the mapping and a list of abbreviations into the FIPS codes
\* of the upper-cased abbreviations, in the order of the list; an abbreviation
\* the mapping does not hold makes it raise: no list is produced, the
\* extractor is not constructed and no county request is made.
C28_ResolveStateFipsList ==
    census.pc # "idle" =>
        /\ census.target_states = <<Wildcard>> =>
              /\ census.resolved.exc = NoError
              /\ Len(census.resolved.value) = Len(StateFipsMap)
              /\ \A i \in 1..Len(StateFipsMap) :
                    census.resolved.value[i] = StateFipsMap[i][2]
        /\ (census.target_states # <<Wildcard>> /\ AllKnown(census.target_states)) =>
              /\ census.resolved.exc = NoError
              /\ Len(census.resolved.value) = Len(census.target_states)
              /\ \A i \in 1..Len(census.target_states) :
                    census.resolved.value[i]
                        = DictGet(StateFipsMap, Upper(census.target_states[i]))
        /\ (census.target_states # <<Wildcard>> /\ ~AllKnown(census.target_states)) =>
              /\ census.resolved.exc.type = "ValueError"
              /\ census.resolved.value = Unset
              /\ census.state_fips_list = Unset
              /\ census.pc = "raised"
              /\ census.exc = census.resolved.exc
              /\ ~census.client
              /\ census.requests = <<>>

\* A lower-case known abbreviation followed by an unknown one made the
\* constructor raise.
C28_Witness ==
    /\ census.pc = "raised"
    /\ Len(census.target_states) >= 2
    /\ census.target_states[1] = <<"n", "j">>
    /\ ~AllKnown(census.target_states)
    /\ census.resolved.abbr = <<"Z", "Z">>

\* C29: get_family_config_metadata returns the {adults, working_adults,
\* children} entry of the composition a header names, in every case, spacing
\* and separator variant, and None only for a header that names none.
C29_LookupEveryVariant ==
    lookup.called =>
        /\ \A k \in 1..Len(FamilyConfigKeys) :
              lookup.header \in HeaderVariants(k) => lookup.result = FamilyConfigValues[k]
        /\ lookup.header \in OtherHeaders => lookup.result = NoMeta

\* C30: a WageRecord or an ExpenseRecord is constructed exactly when adults
\* is 1 or 2, working_adults is between 1 and adults, children is between 0
\* and 3, the category is one of the enumeration of the class and the amount
\* is not negative, the county_fips and the date being valid.
C30_RecordConstraints ==
    record.called =>
        (record.ok <=>
            /\ record.row.adults \in {1, 2}
            /\ 1 <= record.row.working_adults
            /\ record.row.working_adults <= record.row.adults
            /\ 0 <= record.row.children
            /\ record.row.children <= 3
            /\ record.row.label \in (IF record.model_class = "WageRecord"
                                     THEN WageTypes ELSE ExpenseCategories)
            /\ record.row.amount >= 0
            /\ record.row.county_fips \in ValidFipsArgs)

\* A record with three children and an amount of zero was constructed.
C30_Witness ==
    /\ record.called
    /\ record.ok
    /\ record.row.children = 3
    /\ record.row.amount = 0
    /\ record.row.working_adults = 2

\* A row of the validated frame is of another county than the expected one,
\* or the frame has no county_fips column.
CountyMismatch ==
    \/ ~validation.df.has_county_fips
    \/ \E i \in 1..Len(validation.df.rows) :
          ZFill(validation.df.rows[i].county_fips, 5) # ZFill(validation.county_fips, 5)

TooFewTables(n) == Exc("ValueError", "Expected at least 2 tables, found", n)

\* C32: _parse_page raises 'Expected at least 2 tables, found N' for every
\* page with N < 2 results tables and for no page with N >= 2, and
\* scrape_county_with_extractor turns the error into a ScrapeResult with
\* success False whose error holds that message.
C32_TooFewTablesIsAFailedResult ==
    (scrape.fn # "none" /\ scrape.fetch = FetchOk) =>
        /\ Len(scrape.page) < 2 =>
              /\ scrape.outcome.exc = TooFewTables(Len(scrape.page))
              /\ scrape.raised = NoError
              /\ ~scrape.returned.success
              /\ scrape.returned.error = StrOf(TooFewTables(Len(scrape.page)))
        /\ Len(scrape.page) >= 2 =>
              /\ scrape.outcome.exc.msg # "Expected at least 2 tables, found"
              /\ scrape.returned.error.msg # "Expected at least 2 tables, found"

\* A page with one results table was scraped through
\* scrape_county_with_extractor.
C32_Witness ==
    /\ scrape.fn = "scrape_county_with_extractor"
    /\ scrape.fetch = FetchOk
    /\ Len(scrape.page) = 1
    /\ ~scrape.returned.success
    /\ scrape.returned.error.n = 1

\* The row dicts _extract_table makes of table for county_fips are rows: one
\* dict for each body row, its keys the headers and county_fips, its values
\* the cells of the row in order, None where the row has no cell.
RowsFitHeaders(table, county_fips, rows) ==
    /\ Len(rows) = Len(table.tbody)
    /\ \A i \in 1..Len(rows) :
          /\ {rows[i][k][1] : k \in 1..Len(rows[i])}
                = {ExtractHeaders(table).headers[j] :
                      j \in 1..Len(ExtractHeaders(table).headers)}
                  \cup {<<"c", "o", "u", "n", "t", "y", "_", "f", "i", "p", "s">>}
          /\ Len(rows[i]) = Len(ExtractHeaders(table).headers) + 1
          /\ \A j \in 1..Len(ExtractHeaders(table).headers) :
                DictGet(rows[i], ExtractHeaders(table).headers[j])
                    = IF j <= Len(table.tbody[i]) THEN table.tbody[i][j] ELSE NullCell
          /\ DictGet(rows[i], <<"c", "o", "u", "n", "t", "y", "_", "f", "i", "p", "s">>)
                = ZFill(county_fips, 3)
          /\ Len(county_fips) <= 3 =>
                Len(DictGet(rows[i], <<"c", "o", "u", "n", "t", "y", "_", "f", "i", "p", "s">>)) = 3

\* C33: _extract_table does not fail on a body row whose cell count differs
\* from the header count: the row is padded with None or truncated, every row
\* dict has one entry for each reconstructed header and the zero-padded
\* county_fips, and there are as many row dicts as body rows.
C33_RaggedRowsAreFitted ==
    (/\ scrape.fn # "none"
     /\ scrape.fetch = FetchOk
     /\ Len(scrape.page) >= 2
     /\ ExtractHeaders(scrape.page[1]).exc = NoError
     /\ ExtractHeaders(scrape.page[2]).exc = NoError) =>
        /\ scrape.outcome.exc = NoError
        /\ RowsFitHeaders(scrape.page[1], scrape.county_fips,
                          scrape.outcome.data.wages_data)
        /\ RowsFitHeaders(scrape.page[2], scrape.county_fips,
                          scrape.outcome.data.expenses_data)

\* A table with a body row shorter than its header and one longer than it was
\* extracted.
C33_Witness ==
    /\ scrape.fn # "none"
    /\ scrape.fetch = FetchOk
    /\ Len(scrape.page) >= 2
    /\ scrape.outcome.exc = NoError
    /\ \E i, j \in 1..Len(scrape.page[1].tbody) :
          /\ Len(scrape.page[1].tbody[i]) < Len(ExtractHeaders(scrape.page[1]).headers)
          /\ Len(scrape.page[1].tbody[j]) > Len(ExtractHeaders(scrape.page[1]).headers)
    /\ Len(scrape.outcome.data.wages_data) = 2

Distinct(s) == \A i, j \in 1..Len(s) : i # j => s[i] # s[j]

\* The category labels of the frame, when it has a category column.
CategoryLabels(df) ==
    IF \E c \in 1..Len(df.columns) : Lower(df.columns[c]) = <<"c", "a", "t", "e", "g", "o", "r", "y">>
    THEN [i \in 1..Len(df.rows) |->
            df.rows[i][CHOOSE c \in 1..Len(df.columns) :
                          Lower(df.columns[c]) = <<"c", "a", "t", "e", "g", "o", "r", "y">>]]
    ELSE <<>>

NaturalKey(r) == <<r.county_fips, r.adults, r.working_adults, r.children, r.label>>

\* C36: the records normalize_wages / normalize_expenses emit for one county
\* hold no two records with the same natural key (county_fips, adults,
\* working_adults, children, wage_type | expense_category), whenever the
\* category labels and the family headers of the table are pairwise distinct.
C36_NoDuplicateNaturalKey ==
    (/\ norm.fn # "none"
     /\ Distinct(norm.df.columns)
     /\ Distinct(CategoryLabels(norm.df))) =>
        \A i, j \in 1..Len(norm.out.rows) :
            i # j => NaturalKey(norm.out.rows[i]) # NaturalKey(norm.out.rows[j])

\* C35: an invocation of scrape_state_counties opens exactly one extractor
\* session, scrapes every county through it, and closes it exactly once when
\* the sequence ends, by exhaustion or because the consumer's loop body raised.
C35_OneSessionOpenedAndClosed ==
    /\ session.pc = "suspended" =>
          /\ session.opened = 1
          /\ session.closes = 0
    /\ session.pc \in {"exhausted", "closed", "raised"} =>
          /\ session.opened = 1
          /\ session.closes = 1
    /\ \A i \in 1..Len(session.used) : session.used[i].session = 1
    /\ session.pc = "exhausted" => Len(session.used) = session.counties

\* The states are the keys of the mapping, in its order.
AllStates == DictKeys(StateFipsMap)

\* C37: with target_states = ['*'], main runs process_state, and so starts
\* and ends one tracked run, for every state of the abbreviation-to-FIPS
\* mapping.
C37_WildcardProcessesEveryState ==
    (mainrun.pc = "done" /\ mainrun.target_states = <<Wildcard>>) =>
        \A k \in 1..Len(AllStates) :
            \E c \in 1..Len(mainrun.calls) :
                /\ mainrun.calls[c].target_state = AllStates[k]
                /\ mainrun.calls[c].state_fips = StateFipsMap[k][2]

\* The wages table of result i was loaded into stg_wages or is in
\* stg_wages_rejects with its raw payload.
WagesTraced(i) ==
    \/ \E r \in staging.stg_wages : r.county_fips = ZFill(results[i].fips_code, 5)
    \/ \E j \in 1..Len(staging.stg_wages_rejects) :
          staging.stg_wages_rejects[j].raw_data = results[i].wages_data.rows

\* The same for the expenses table and stg_expenses / stg_expenses_rejects.
ExpensesTraced(i) ==
    \/ \E r \in staging.stg_expenses : r.county_fips = ZFill(results[i].fips_code, 5)
    \/ \E j \in 1..Len(staging.stg_expenses_rejects) :
          staging.stg_expenses_rejects[j].raw_data = results[i].expenses_data.rows

FetchFailed == gpc = "raised" /\ hpc = "raised"

\* C40: get writes to the cache only after a successful fetch.  From the
\* lookup of the key until get is left, every step but the store that
\* follows a fetched content leaves the cache as it is; and when
\* _fetch_with_retry has raised, get has made no store, the cache holds for
\* the key what the lookup left there, no entry written by this request, and
\* a get for the same key finds no entry and goes to the network again.
C40_FailedFetchLeavesCacheUnchanged ==
    /\ [][(gpc = "fetching" /\ ~(hpc = "returned" /\ gpc' = "returned")) =>
              UNCHANGED <<files, stored, store_calls>>]_vars
    /\ [](FetchFailed =>
              /\ store_calls = <<>>
              /\ files[get_key] = lastGet.after
              /\ \A k \in CacheKeys : stored[k] = NotStored
              /\ GetResult(get_key).exc = "none"
              /\ ~CacheHit(GetResult(get_key).result))

\* A get that found no entry and whose fetch ended with a 404: nothing was
\* stored.
C40_Witness ==
    /\ FetchFailed
    /\ lastGet.before = Absent
    /\ calls = <<Outcome("HTTPError", 404)>>
    /\ files[get_key] = Absent

====
